---- MODULE Spec2Model ----
(***************************************************************************)
(* State-machine model of the agario client (stdbClient.ts, GameScene.ts,  *)
(* GameCanvas.tsx) and of the authoritative Store it talks to.             *)
(*                                                                         *)
(* Discretisation.  Positions and masses are integers.  massToRadius is    *)
(* 2*sqrt(mass), taken as the integer square root of 4*mass (exact for the *)
(* square masses the inputs use).  A distance test sqrt(d2) < r is the     *)
(* equivalent d2 < r*r.  Time is kept as saturating "elapsed since"        *)
(* counters, which is all the code's comparisons look at.  Replication     *)
(* events are delivered in the step in which the Store commits them; a     *)
(* reducer call stays in flight until the Store has processed it and the   *)
(* promise settles.  Rendering-only fields (foodGfx, HUD, camera) are left *)
(* out.                                                                    *)
(***************************************************************************)
EXTENDS Integers, FiniteSets, Sequences, TLC

\* ------------------------------------------------------------ constants
WORLD_SIZE == 3000
FOOD_RADIUS == 6
INITIAL_MASS == 100
BASE_SPEED == 150
POSITION_SEND_INTERVAL_MS == 50
EJECT_COOLDOWN_MS == 200
SPLIT_COOLDOWN_MS == 500
SPLIT_LAUNCH_SPEED == 700
RESPAWN_DELAY_MS == 2000
EJECT_TWEEN_MS == 400
EJECT_DIR_TTL_MS == 1000
MERGE_TIMEOUT_MS == 600
MERGE_EPSILON == 5
MOVE_DEADZONE == 5
LAUNCH_STOP_SPEED == 30
\* The fill colour createLocalPlayer gives the local circle (0x4a90d9).
DEFAULT_FILL == 4886745

\* ------------------------------------------------------------ bounds
\* connectToSpacetimeDB and cleanupSpacetimeDB each bump the generation.
MaxGen == 3
\* At most this many reducer calls are unsettled at a time: a step that would
\* dispatch beyond it is not taken until one has settled.
MaxInflight == 2
\* Store calls submitted and not yet run, and calls submitted in all.
MaxCalls == 2
MaxSubmitted == 5

\* ------------------------------------------------------------ input sets
LOCAL_ID == "me"
RemoteIds == {"p2"}
Idents == {LOCAL_ID} \cup RemoteIds
FoodIds == {1}
EjectIds == {1}
CellIds == {1, 2}
Masses == {100, 400}
CellMasses == {100}
\* The name and colour the page hands to GameCanvas, and another of each.
PLAYER_NAME == "Alice"
PLAYER_COLOR == 1
Names == {PLAYER_NAME, "Bob"}
Colors == {PLAYER_COLOR, 2}
\* World points used for rows and for the pointer (near the left wall).
Points == {<<20, 40>>, <<50, 40>>}
\* Frame lengths in ms: a slow frame, and one as long as two cooldowns.
\* Where the Store puts its first pellet and the replacement of an eaten one.
FirstPelletAt == <<35, 40>>
NextPelletAt == <<80, 40>>
Deltas == {500}
LongDeltas == {1000}

NULL_CONN == 0
NULL_ID == ""
NO_CELL == 0
NO_TIMER == -1
NoDir == <<>>

\* ------------------------------------------------------------ arithmetic
Abs(n) == IF n < 0 THEN -n ELSE n
Sgn(n) == IF n < 0 THEN -1 ELSE IF n > 0 THEN 1 ELSE 0
Min(a, b) == IF a < b THEN a ELSE b
Max(a, b) == IF a > b THEN a ELSE b
\* The integer part of the square root, found by bisection: the r with
\* r * r <= n < (r + 1) * (r + 1).
RECURSIVE SqrtBetween(_, _, _)
SqrtBetween(n, lo, hi) ==
    IF lo >= hi THEN lo
    ELSE CHOOSE r \in {IF mid[1] * mid[1] <= n THEN SqrtBetween(n, mid[1], mid[3])
                       ELSE SqrtBetween(n, mid[2], mid[1] - 1) :
                            mid \in {<<(lo + hi + 1) \div 2, lo, hi>>}} : TRUE
ISqrt(n) == CHOOSE r \in {SqrtBetween(m, 0, Min(m, 46340)) : m \in {n}} : TRUE
\* a * b / c rounded toward zero, for a of either sign.
MulDiv(a, b, c) == Sgn(a) * ((Abs(a) * b) \div c)
Clamp(v, lo, hi) == Max(lo, Min(hi, v))
Dist2(x1, y1, x2, y2) == (x1 - x2) * (x1 - x2) + (y1 - y2) * (y1 - y2)
\* 1000 * e^(-tenths/10) for the exponents the frame lengths produce.
ExpPermille(tenths) ==
    CASE tenths <= 0 -> 1000
      [] tenths = 5 -> 607
      [] tenths = 10 -> 368
      [] tenths = 20 -> 135
      [] tenths = 25 -> 82
      [] tenths = 50 -> 7
      [] tenths = 100 -> 0
      [] OTHER -> 0

massToRadius(mass) == ISqrt(4 * mass)

\* ------------------------------------------------------------ maps
MapSet(m, k, v) == [x \in (DOMAIN m) \cup {k} |-> IF x = k THEN v ELSE m[x]]
MapDelete(m, k) == [x \in (DOMAIN m) \ {k} |-> m[x]]
EmptyMap == <<>>

VARIABLES
    \* stdbClient.ts module state
    generation, conn, localIdentityHex, onEatenCallback, onCellDeletedCallback,
    playerMap, foodMap, ejectedMassMap, playerCellMap,
    pendingFoodEats, pendingEjectedMassEats,
    \* environment: the connections built so far, the reducer calls in flight,
    \* and the pellet and blob ids whose rows the Store has deleted
    connPhase, inflight, retired,
    \* GameCanvas.tsx effect and the GameScene instance it created
    mounted, scene,
    \* the authoritative Store
    sPlayers, sFood, sEjected, sCells, sNext, sCalls, sEatLog

stdbVars == <<generation, conn, localIdentityHex, onEatenCallback, onCellDeletedCallback,
              playerMap, foodMap, ejectedMassMap, playerCellMap,
              pendingFoodEats, pendingEjectedMassEats>>
cacheVars == <<playerMap, foodMap, ejectedMassMap, playerCellMap>>
envVars == <<connPhase, inflight, retired>>
canvasVars == <<mounted, scene>>
storeVars == <<sPlayers, sFood, sEjected, sCells, sNext, sCalls, sEatLog>>
clientVars == <<stdbVars, envVars, canvasVars>>
vars == <<stdbVars, envVars, canvasVars, storeVars>>

Gens == 1..MaxGen
LivePhases == {"connected", "subscribed"}

\* F applied to the value of v: v is evaluated once, however often F uses it.
Then(v, F(_)) == CHOOSE r \in {F(x) : x \in {v}} : TRUE

\* ------------------------------------------------------------ GameScene fields
\* init(): the field values of a fresh scene, created under generation g.
InitScene(g) ==
    [ up |-> TRUE, gen |-> g,
      localX |-> WORLD_SIZE \div 2, localY |-> WORLD_SIZE \div 2,
      localMass |-> INITIAL_MASS, localRadius |-> massToRadius(INITIAL_MASS),
      serverPositionInitialized |-> FALSE,
      splitCellId |-> NO_CELL, splitClientX |-> 0, splitClientY |-> 0,
      splitLaunchVx |-> 0, splitLaunchVy |-> 0, splitLaunching |-> FALSE,
      pendingSplitDir |-> NoDir, splitMerging |-> FALSE, splitMergeElapsed |-> 0,
      splitVisible |-> FALSE,
      ejectedAnimating |-> EmptyMap, pendingEjectDir |-> NoDir,
      remoteGfx |-> {}, ejectedGfx |-> {},
      fillColor |-> DEFAULT_FILL, nameText |-> PLAYER_NAME,
      sincePos |-> POSITION_SEND_INTERVAL_MS,
      sinceEject |-> EJECT_COOLDOWN_MS, sinceSplit |-> SPLIT_COOLDOWN_MS,
      pendingPlayerEats |-> {},
      isEaten |-> FALSE, respawnIn |-> NO_TIMER ]

\* No scene exists: before the game is ready and after it is destroyed.
NoScene == [InitScene(0) EXCEPT !.up = FALSE]

NoInflight ==
    [ eatFood |-> [k \in FoodIds \X Gens |-> 0],
      eatEjectedMass |-> [k \in EjectIds \X Gens |-> 0],
      eatPlayer |-> [k \in RemoteIds \X Gens |-> 0],
      spawnPlayer |-> [g \in Gens |-> 0],
      ejectMass |-> [g \in Gens |-> 0],
      splitCell |-> [g \in Gens |-> 0] ]

\* One more unsettled call.
Bump(n) == n + 1

RECURSIVE SumOver(_, _)
SumOver(f, keys) ==
    IF keys = {} THEN 0
    ELSE LET k == CHOOSE x \in keys : TRUE IN f[k] + SumOver(f, keys \ {k})
Total(f) == SumOver(f, DOMAIN f)

InflightTotal(fl) ==
    Total(fl.eatFood) + Total(fl.eatEjectedMass) + Total(fl.eatPlayer)
    + Total(fl.spawnPlayer) + Total(fl.ejectMass) + Total(fl.splitCell)
\* The bound on unsettled calls, as a guard of every dispatching step.
Room(fl) == InflightTotal(fl) <= MaxInflight

\* ------------------------------------------------------------ handleEaten / doRespawn
\* A variant without the early return: a notification that arrives while the
\* scene is consumed resets it again and restarts the delay.
handleEatenEveryTime(s) ==
    [s EXCEPT !.isEaten = TRUE,
              !.localMass = INITIAL_MASS,
              !.localRadius = massToRadius(INITIAL_MASS),
              !.serverPositionInitialized = FALSE,
              !.splitVisible = FALSE,
              !.pendingPlayerEats = {},
              !.splitCellId = NO_CELL,
              !.splitLaunching = FALSE,
              !.splitMerging = FALSE,
              !.splitMergeElapsed = 0,
              !.pendingSplitDir = NoDir,
              !.pendingEjectDir = NoDir,
              !.ejectedAnimating = EmptyMap,
              !.respawnIn = RESPAWN_DELAY_MS]

handleEaten(s) ==
    IF s.isEaten THEN s
    ELSE [s EXCEPT !.isEaten = TRUE,
                   !.localMass = INITIAL_MASS,
                   !.localRadius = massToRadius(INITIAL_MASS),
                   !.serverPositionInitialized = FALSE,
                   !.splitVisible = FALSE,
                   !.pendingPlayerEats = {},
                   !.splitCellId = NO_CELL,
                   !.splitLaunching = FALSE,
                   !.splitMerging = FALSE,
                   !.splitMergeElapsed = 0,
                   !.pendingSplitDir = NoDir,
                   !.pendingEjectDir = NoDir,
                   !.ejectedAnimating = EmptyMap,
                   !.respawnIn = RESPAWN_DELAY_MS]

\* The arguments of the two spawnPlayer calls.  onApplied sends the name and
\* the color the component was given; doRespawn sends { name: this.playerName }
\* and no color (NO_COLOR: the argument is absent).  init() takes playerName
\* from the same data the component passes to connectToSpacetimeDB.
NO_COLOR == 0
OnAppliedSpawnArgs == [name |-> PLAYER_NAME, color |-> PLAYER_COLOR]
doRespawnSpawnArgs == [name |-> PLAYER_NAME, color |-> NO_COLOR]

\* The scene part of doRespawn; the spawnPlayer call is dispatched by the frame
\* in which the timer fires (RespawnCalls).
doRespawn(s) == [s EXCEPT !.isEaten = FALSE, !.respawnIn = NO_TIMER]

\* _onEatenCallback?.() : the closure registered by the scene's create().
FireOnEaten(s) ==
    IF onEatenCallback # 0 /\ s.up /\ s.gen = onEatenCallback THEN handleEaten(s) ELSE s

\* ------------------------------------------------------------ GameCanvas.tsx
\* connectToSpacetimeDB: bump the generation, build the connection, register
\* the handlers (the actions below, with g the captured myGen), remember it.
connectToSpacetimeDB ==
    /\ generation' = generation + 1
    /\ connPhase' = [connPhase EXCEPT ![generation + 1] = "connecting"]
    /\ conn' = generation + 1

\* The effect body: initGame() calls connectToSpacetimeDB first.
Mount ==
    /\ ~mounted
    /\ generation < MaxGen
    /\ connectToSpacetimeDB
    /\ mounted' = TRUE
    /\ UNCHANGED <<localIdentityHex, onEatenCallback, onCellDeletedCallback, cacheVars,
                   pendingFoodEats, pendingEjectedMassEats, inflight, scene, retired, storeVars>>

\* game "ready": scene.add runs init() and create(), which registers the
\* eaten callback.
SceneCreate ==
    /\ mounted
    /\ ~scene.up
    /\ scene' = InitScene(generation)
    /\ onEatenCallback' = generation
    /\ UNCHANGED <<generation, conn, localIdentityHex, onCellDeletedCallback, cacheVars,
                   pendingFoodEats, pendingEjectedMassEats, envVars, mounted, storeVars>>

\* A cleanup that leaves the two shared pending sets as they are.
cleanupKeepsPending ==
    /\ generation' = generation + 1
    /\ onEatenCallback' = 0
    /\ onCellDeletedCallback' = 0
    /\ conn' = NULL_CONN
    /\ localIdentityHex' = NULL_ID
    /\ playerMap' = EmptyMap
    /\ foodMap' = EmptyMap
    /\ ejectedMassMap' = EmptyMap
    /\ playerCellMap' = EmptyMap
    /\ UNCHANGED <<pendingFoodEats, pendingEjectedMassEats>>

\* cleanupSpacetimeDB: everything it assigns.  The despawnPlayer call it sends
\* has no handler that touches client state.
cleanupSpacetimeDB ==
    /\ generation' = generation + 1
    /\ onEatenCallback' = 0
    /\ onCellDeletedCallback' = 0
    /\ conn' = NULL_CONN
    /\ localIdentityHex' = NULL_ID
    /\ playerMap' = EmptyMap
    /\ foodMap' = EmptyMap
    /\ ejectedMassMap' = EmptyMap
    /\ playerCellMap' = EmptyMap
    /\ pendingFoodEats' = {}
    /\ pendingEjectedMassEats' = {}

\* The effect's cleanup: cancelled = true; cleanupSpacetimeDB(); game.destroy(),
\* whose shutdown event clears the eaten callback and the scene's tweens.
Unmount ==
    /\ mounted
    /\ generation < MaxGen
    /\ cleanupSpacetimeDB
    /\ mounted' = FALSE
    /\ scene' = NoScene
    /\ UNCHANGED <<envVars, storeVars>>

\* ------------------------------------------------------------ connection callbacks
\* A callback of a connection whose myGen is no longer current returns at once.
Stale(g) == g # generation

OnConnect(g) ==
    /\ connPhase[g] = "connecting"
    /\ connPhase' = [connPhase EXCEPT ![g] = "connected"]
    /\ localIdentityHex' = IF Stale(g) THEN localIdentityHex ELSE LOCAL_ID
    /\ UNCHANGED <<generation, conn, onEatenCallback, onCellDeletedCallback, cacheVars,
                   pendingFoodEats, pendingEjectedMassEats, inflight,
                   canvasVars, retired, storeVars>>

\* subscription onApplied: dispatches spawnPlayer on this connection.
OnApplied(g) ==
    /\ connPhase[g] = "connected"
    /\ connPhase' = [connPhase EXCEPT ![g] = "subscribed"]
    /\ inflight' = IF Stale(g) THEN inflight
                   ELSE [inflight EXCEPT !.spawnPlayer[g] = Bump(@)]
    /\ Room(inflight')
    /\ UNCHANGED <<stdbVars, canvasVars, retired, storeVars>>

\* onDisconnect without the generation check.
OnDisconnectAnyGeneration(g) ==
    /\ connPhase[g] \in LivePhases
    /\ connPhase' = [connPhase EXCEPT ![g] = "closed"]
    /\ localIdentityHex' = NULL_ID
    /\ UNCHANGED <<generation, conn, onEatenCallback, onCellDeletedCallback, cacheVars,
                   pendingFoodEats, pendingEjectedMassEats, inflight,
                   canvasVars, retired, storeVars>>

OnDisconnect(g) ==
    /\ connPhase[g] \in LivePhases
    /\ connPhase' = [connPhase EXCEPT ![g] = "closed"]
    /\ localIdentityHex' = IF Stale(g) THEN localIdentityHex ELSE NULL_ID
    /\ UNCHANGED <<generation, conn, onEatenCallback, onCellDeletedCallback, cacheVars,
                   pendingFoodEats, pendingEjectedMassEats, inflight,
                   canvasVars, retired, storeVars>>

\* onConnectError only logs.
OnConnectError(g) ==
    /\ connPhase[g] = "connecting"
    /\ connPhase' = [connPhase EXCEPT ![g] = "closed"]
    /\ UNCHANGED <<stdbVars, inflight, canvasVars, retired, storeVars>>

\* ------------------------------------------------------------ row handlers
\* Each handler is given the connection g it was registered on and the row the
\* channel delivers.  CanDeliver: the connection is open.
CanDeliver(g) == connPhase[g] \in LivePhases

\* playerMap.set(...) behind the generation check: the body shared by
\* player.onInsert and player.onUpdate.
PlayerRowSet(g, id, row) ==
    /\ playerMap' = IF Stale(g) THEN playerMap ELSE MapSet(playerMap, id, row)
    /\ UNCHANGED <<generation, conn, localIdentityHex, onEatenCallback, onCellDeletedCallback,
                   foodMap, ejectedMassMap, playerCellMap,
                   pendingFoodEats, pendingEjectedMassEats, canvasVars>>

PlayerOnInsert(g, id, row) ==
    /\ CanDeliver(g)
    /\ PlayerRowSet(g, id, row)
    /\ UNCHANGED <<envVars, storeVars>>

PlayerOnUpdate(g, id, row) ==
    /\ CanDeliver(g)
    /\ PlayerRowSet(g, id, row)
    /\ UNCHANGED <<envVars, storeVars>>

\* The liveness test alone: any player's delete on a live connection.
EatenConditionAnyPlayer(id) == conn # NULL_CONN

\* Whether player.onDelete goes on to call the eaten callback.
EatenCondition(id) == id = localIdentityHex /\ conn # NULL_CONN

PlayerOnDelete(g, id) ==
    /\ CanDeliver(g)
    /\ IF Stale(g)
       THEN UNCHANGED <<playerMap, scene>>
       ELSE /\ playerMap' = MapDelete(playerMap, id)
            /\ scene' = IF EatenCondition(id) THEN FireOnEaten(scene) ELSE scene
    /\ UNCHANGED <<generation, conn, localIdentityHex, onEatenCallback, onCellDeletedCallback,
                   foodMap, ejectedMassMap, playerCellMap,
                   pendingFoodEats, pendingEjectedMassEats, envVars, mounted, storeVars>>

\* A pellet insert handler without the generation check.
FoodOnInsertAnyGeneration(g, id, row) ==
    /\ CanDeliver(g)
    /\ foodMap' = MapSet(foodMap, id, row)
    /\ pendingFoodEats' = pendingFoodEats \ {id}
    /\ UNCHANGED <<generation, conn, localIdentityHex, onEatenCallback, onCellDeletedCallback,
                   playerMap, ejectedMassMap, playerCellMap,
                   pendingEjectedMassEats, envVars, canvasVars, storeVars>>

FoodOnInsert(g, id, row) ==
    /\ CanDeliver(g)
    /\ IF Stale(g)
       THEN UNCHANGED <<foodMap, pendingFoodEats>>
       ELSE /\ foodMap' = MapSet(foodMap, id, row)
            /\ pendingFoodEats' = pendingFoodEats \ {id}
    /\ UNCHANGED <<generation, conn, localIdentityHex, onEatenCallback, onCellDeletedCallback,
                   playerMap, ejectedMassMap, playerCellMap,
                   pendingEjectedMassEats, envVars, canvasVars, storeVars>>

\* (The Store deleted the row and never reuses its id: the id is retired, so
\* that the current connection is not handed a second insert for it.)
FoodOnDelete(g, id) ==
    /\ CanDeliver(g)
    /\ retired' = IF Stale(g) THEN retired ELSE [retired EXCEPT !.food = @ \cup {id}]
    /\ IF Stale(g)
       THEN UNCHANGED <<foodMap, pendingFoodEats>>
       ELSE /\ foodMap' = MapDelete(foodMap, id)
            /\ pendingFoodEats' = pendingFoodEats \ {id}
    /\ UNCHANGED <<generation, conn, localIdentityHex, onEatenCallback, onCellDeletedCallback,
                   playerMap, ejectedMassMap, playerCellMap,
                   pendingEjectedMassEats, connPhase, inflight, canvasVars, storeVars>>

EjectedOnInsert(g, id, row) ==
    /\ CanDeliver(g)
    /\ ejectedMassMap' = IF Stale(g) THEN ejectedMassMap ELSE MapSet(ejectedMassMap, id, row)
    /\ UNCHANGED <<generation, conn, localIdentityHex, onEatenCallback, onCellDeletedCallback,
                   playerMap, foodMap, playerCellMap,
                   pendingFoodEats, pendingEjectedMassEats, envVars, canvasVars, storeVars>>

EjectedOnDelete(g, id) ==
    /\ CanDeliver(g)
    /\ retired' = IF Stale(g) THEN retired ELSE [retired EXCEPT !.ejected = @ \cup {id}]
    /\ IF Stale(g)
       THEN UNCHANGED <<ejectedMassMap, pendingEjectedMassEats>>
       ELSE /\ ejectedMassMap' = MapDelete(ejectedMassMap, id)
            /\ pendingEjectedMassEats' = pendingEjectedMassEats \ {id}
    /\ UNCHANGED <<generation, conn, localIdentityHex, onEatenCallback, onCellDeletedCallback,
                   playerMap, foodMap, playerCellMap,
                   pendingFoodEats, connPhase, inflight, canvasVars, storeVars>>

CellOnInsert(g, id, row) ==
    /\ CanDeliver(g)
    /\ playerCellMap' = IF Stale(g) THEN playerCellMap ELSE MapSet(playerCellMap, id, row)
    /\ UNCHANGED <<generation, conn, localIdentityHex, onEatenCallback, onCellDeletedCallback,
                   playerMap, foodMap, ejectedMassMap,
                   pendingFoodEats, pendingEjectedMassEats, envVars, canvasVars, storeVars>>

CellOnUpdate(g, id, row) ==
    /\ CanDeliver(g)
    /\ playerCellMap' = IF Stale(g) THEN playerCellMap ELSE MapSet(playerCellMap, id, row)
    /\ UNCHANGED <<generation, conn, localIdentityHex, onEatenCallback, onCellDeletedCallback,
                   playerMap, foodMap, ejectedMassMap,
                   pendingFoodEats, pendingEjectedMassEats, envVars, canvasVars, storeVars>>

\* _onCellDeletedCallback is never registered by GameScene, so the call is a no-op.
CellOnDelete(g, id) ==
    /\ CanDeliver(g)
    /\ playerCellMap' = IF Stale(g) THEN playerCellMap ELSE MapDelete(playerCellMap, id)
    /\ UNCHANGED <<generation, conn, localIdentityHex, onEatenCallback, onCellDeletedCallback,
                   playerMap, foodMap, ejectedMassMap,
                   pendingFoodEats, pendingEjectedMassEats, envVars, canvasVars, storeVars>>

\* ------------------------------------------------------------ the frame: update()
\* The scene clock, timers and tweens advance before update() runs.
AdvanceClocks(s, delta) ==
    [s EXCEPT
       !.sincePos = Min(@ + delta, POSITION_SEND_INTERVAL_MS),
       !.sinceEject = Min(@ + delta, EJECT_COOLDOWN_MS),
       !.sinceSplit = Min(@ + delta, SPLIT_COOLDOWN_MS),
       !.pendingEjectDir =
            IF @ = NoDir THEN @ ELSE <<@[1], @[2], Min(@[3] + delta, EJECT_DIR_TTL_MS)>>,
       !.ejectedAnimating =
            [id \in {i \in DOMAIN @ : @[i] + delta < EJECT_TWEEN_MS} |-> @[id] + delta],
       !.respawnIn = IF @ = NO_TIMER THEN @ ELSE Max(@ - delta, 0)]

\* BASE_SPEED / sqrt(mass / INITIAL_MASS)
SpeedFor(mass) == (BASE_SPEED * ISqrt(INITIAL_MASS)) \div Max(ISqrt(mass), 1)

\* One prediction step from (x, y) toward the pointer, clamped by the radius.
MovedPos(x, y, mass, radius, delta, ptr) ==
    LET dx == ptr[1] - x
        dy == ptr[2] - y
        d2 == dx * dx + dy * dy
        dist == ISqrt(d2)
        speed == SpeedFor(mass)
    IN  IF d2 > MOVE_DEADZONE * MOVE_DEADZONE
        THEN << Clamp(x + MulDiv(dx, speed * delta, dist * 1000), radius, WORLD_SIZE - radius),
                Clamp(y + MulDiv(dy, speed * delta, dist * 1000), radius, WORLD_SIZE - radius) >>
        ELSE <<x, y>>

\* The prediction step without the serverPositionInitialized guard.
movePlayerUnguarded(s, delta, ptr) ==
    LET p == MovedPos(s.localX, s.localY, s.localMass, s.localRadius, delta, ptr)
    IN  [s EXCEPT !.localX = p[1], !.localY = p[2]]

movePlayerTowardMouse(s, delta, ptr) ==
    IF ~s.serverPositionInitialized THEN s
    ELSE LET p == MovedPos(s.localX, s.localY, s.localMass, s.localRadius, delta, ptr)
         IN  [s EXCEPT !.localX = p[1], !.localY = p[2]]

\* The split-cell step with a merge that ends by distance only.
updateSplitCellsNoCeiling(s, delta, ptr) ==
    IF s.splitMerging
    THEN LET elapsed == Min(s.splitMergeElapsed + delta, MERGE_TIMEOUT_MS + 1)
             factor == 1000 - ExpPermille(delta \div 10)
             nx == s.splitClientX + MulDiv(s.localX - s.splitClientX, factor, 1000)
             ny == s.splitClientY + MulDiv(s.localY - s.splitClientY, factor, 1000)
             done == Dist2(s.localX, s.localY, nx, ny) < MERGE_EPSILON * MERGE_EPSILON
         IN  [s EXCEPT !.splitMergeElapsed = elapsed,
                       !.splitClientX = nx, !.splitClientY = ny,
                       !.splitMerging = ~done,
                       !.splitVisible = IF done THEN FALSE ELSE @]
    ELSE IF s.splitCellId = NO_CELL \/ s.splitCellId \notin DOMAIN playerCellMap THEN s
    ELSE LET cell == playerCellMap[s.splitCellId]
             r == massToRadius(cell.mass)
         IN  IF s.splitLaunching
             THEN LET decay == ExpPermille(delta \div 20)
                      vx == MulDiv(s.splitLaunchVx, decay, 1000)
                      vy == MulDiv(s.splitLaunchVy, decay, 1000)
                  IN  [s EXCEPT !.splitLaunchVx = vx, !.splitLaunchVy = vy,
                          !.splitClientX = Clamp(@ + MulDiv(vx, delta, 1000), r, WORLD_SIZE - r),
                          !.splitClientY = Clamp(@ + MulDiv(vy, delta, 1000), r, WORLD_SIZE - r),
                          !.splitLaunching =
                              ~(vx * vx + vy * vy < LAUNCH_STOP_SPEED * LAUNCH_STOP_SPEED)]
             ELSE LET p == MovedPos(s.splitClientX, s.splitClientY, cell.mass, r, delta, ptr)
                  IN  [s EXCEPT !.splitClientX = p[1], !.splitClientY = p[2]]

updateSplitCells(s, delta, ptr) ==
    IF s.splitMerging
    THEN LET elapsed == Min(s.splitMergeElapsed + delta, MERGE_TIMEOUT_MS + 1)
             factor == 1000 - ExpPermille(delta \div 10)
             nx == s.splitClientX + MulDiv(s.localX - s.splitClientX, factor, 1000)
             ny == s.splitClientY + MulDiv(s.localY - s.splitClientY, factor, 1000)
             done == Dist2(s.localX, s.localY, nx, ny) < MERGE_EPSILON * MERGE_EPSILON
                     \/ elapsed > MERGE_TIMEOUT_MS
         IN  [s EXCEPT !.splitMergeElapsed = elapsed,
                       !.splitClientX = nx, !.splitClientY = ny,
                       !.splitMerging = ~done,
                       !.splitVisible = IF done THEN FALSE ELSE @]
    ELSE IF s.splitCellId = NO_CELL \/ s.splitCellId \notin DOMAIN playerCellMap THEN s
    ELSE LET cell == playerCellMap[s.splitCellId]
             r == massToRadius(cell.mass)
         IN  IF s.splitLaunching
             THEN LET decay == ExpPermille(delta \div 20)
                      vx == MulDiv(s.splitLaunchVx, decay, 1000)
                      vy == MulDiv(s.splitLaunchVy, decay, 1000)
                  IN  [s EXCEPT !.splitLaunchVx = vx, !.splitLaunchVy = vy,
                          !.splitClientX = Clamp(@ + MulDiv(vx, delta, 1000), r, WORLD_SIZE - r),
                          !.splitClientY = Clamp(@ + MulDiv(vy, delta, 1000), r, WORLD_SIZE - r),
                          !.splitLaunching =
                              ~(vx * vx + vy * vy < LAUNCH_STOP_SPEED * LAUNCH_STOP_SPEED)]
             ELSE LET p == MovedPos(s.splitClientX, s.splitClientY, cell.mass, r, delta, ptr)
                  IN  [s EXCEPT !.splitClientX = p[1], !.splitClientY = p[2]]

\* The local player's row, as syncFromServer looks it up.
HasLocalRow == localIdentityHex # NULL_ID /\ localIdentityHex \in DOMAIN playerMap

\* A reconciliation that takes the row's position on every call.
SnapAlways(s, row) ==
    [s EXCEPT !.serverPositionInitialized = TRUE, !.localX = row.x, !.localY = row.y]

\* The hard snap: taken once, on the first row seen while the flag is clear.
SnapToServer(s, row) ==
    IF ~s.serverPositionInitialized
    THEN [s EXCEPT !.serverPositionInitialized = TRUE, !.localX = row.x, !.localY = row.y]
    ELSE s

\* Mass and radius are overwritten from the row whenever they differ.
SyncMass(s, row) ==
    IF row.mass # s.localMass
    THEN [s EXCEPT !.localMass = row.mass, !.localRadius = massToRadius(row.mass)]
    ELSE s

\* localCircle.setFillStyle(serverPlayer.color), on every call.
SyncColor(s, row) == [s EXCEPT !.fillColor = row.color]

\* The first PlayerCell of the local player (the Store keeps at most one).
LocalCellId ==
    LET owned == {c \in DOMAIN playerCellMap :
                    playerCellMap[c].playerIdentity = localIdentityHex}
    IN  IF owned = {} THEN NO_CELL ELSE CHOOSE c \in owned : \A d \in owned : c <= d

\* A split-cell sync that places every new cell at the Store's position.
SyncSplitCellSnapOnly(s) ==
    LET id == LocalCellId
    IN  IF id # NO_CELL
        THEN LET cell == playerCellMap[id]
                 s1 == IF s.splitCellId = id THEN s
                       ELSE [s EXCEPT !.splitMerging = FALSE, !.splitCellId = id,
                                !.splitClientX = cell.x, !.splitClientY = cell.y,
                                !.splitLaunchVx = 0, !.splitLaunchVy = 0,
                                !.splitLaunching = FALSE]
             IN  [s1 EXCEPT !.splitVisible = TRUE]
        ELSE IF s.splitCellId # NO_CELL
        THEN [s EXCEPT !.splitCellId = NO_CELL, !.splitLaunching = FALSE,
                       !.splitMerging = IF s.splitVisible THEN TRUE ELSE @,
                       !.splitMergeElapsed = IF s.splitVisible THEN 0 ELSE @]
        ELSE s

\* A variant in which a new split cell does not cancel a running merge
\* animation.
SyncSplitCellKeepsMerge(s) ==
    LET id == LocalCellId
    IN  IF id # NO_CELL
        THEN LET cell == playerCellMap[id]
                 s1 == IF s.splitCellId = id THEN s
                       ELSE IF s.pendingSplitDir # NoDir
                       THEN [s EXCEPT !.splitCellId = id,
                                !.splitClientX = s.localX, !.splitClientY = s.localY,
                                !.splitLaunchVx =
                                    MulDiv(s.pendingSplitDir[1], SPLIT_LAUNCH_SPEED, 1000),
                                !.splitLaunchVy =
                                    MulDiv(s.pendingSplitDir[2], SPLIT_LAUNCH_SPEED, 1000),
                                !.splitLaunching = TRUE,
                                !.pendingSplitDir = NoDir]
                       ELSE [s EXCEPT !.splitCellId = id,
                                !.splitClientX = cell.x, !.splitClientY = cell.y,
                                !.splitLaunchVx = 0, !.splitLaunchVy = 0,
                                !.splitLaunching = FALSE]
             IN  [s1 EXCEPT !.splitVisible = TRUE]
        ELSE IF s.splitCellId # NO_CELL
        THEN [s EXCEPT !.splitCellId = NO_CELL, !.splitLaunching = FALSE,
                       !.splitMerging = IF s.splitVisible THEN TRUE ELSE @,
                       !.splitMergeElapsed = IF s.splitVisible THEN 0 ELSE @]
        ELSE s

SyncSplitCell(s) ==
    LET id == LocalCellId
    IN  IF id # NO_CELL
        THEN LET cell == playerCellMap[id]
                 s1 == IF s.splitCellId = id THEN s
                       ELSE IF s.pendingSplitDir # NoDir
                       THEN [s EXCEPT !.splitMerging = FALSE, !.splitCellId = id,
                                !.splitClientX = s.localX, !.splitClientY = s.localY,
                                !.splitLaunchVx =
                                    MulDiv(s.pendingSplitDir[1], SPLIT_LAUNCH_SPEED, 1000),
                                !.splitLaunchVy =
                                    MulDiv(s.pendingSplitDir[2], SPLIT_LAUNCH_SPEED, 1000),
                                !.splitLaunching = TRUE,
                                !.pendingSplitDir = NoDir]
                       ELSE [s EXCEPT !.splitMerging = FALSE, !.splitCellId = id,
                                !.splitClientX = cell.x, !.splitClientY = cell.y,
                                !.splitLaunchVx = 0, !.splitLaunchVy = 0,
                                !.splitLaunching = FALSE]
             IN  [s1 EXCEPT !.splitVisible = TRUE]
        ELSE IF s.splitCellId # NO_CELL
        THEN [s EXCEPT !.splitCellId = NO_CELL, !.splitLaunching = FALSE,
                       !.splitMerging = IF s.splitVisible THEN TRUE ELSE @,
                       !.splitMergeElapsed = IF s.splitVisible THEN 0 ELSE @]
        ELSE s

\* A variant that removes the graphics of a vanished remote player and keeps
\* its pendingPlayerEats entry.
SyncRemotesKeepPending(s) ==
    [s EXCEPT !.remoteGfx = {id \in DOMAIN playerMap : id # localIdentityHex}]

\* Remote players: graphics for every other row; a vanished one also leaves
\* pendingPlayerEats.
SyncRemotes(s) ==
    LET now == {id \in DOMAIN playerMap : id # localIdentityHex}
    IN  [s EXCEPT !.remoteGfx = now,
                  !.pendingPlayerEats = @ \ (s.remoteGfx \ now)]

\* Ejected mass: a new row consumes a fresh pendingEjectDir and is tweened
\* (immune to collision meanwhile); vanished rows lose graphics and tween.
SyncEjected(s) ==
    LET rows == DOMAIN ejectedMassMap
        new == rows \ s.ejectedGfx
        doTween == new # {} /\ s.pendingEjectDir # NoDir
                   /\ s.pendingEjectDir[3] < EJECT_DIR_TTL_MS
        first == CHOOSE i \in new : \A j \in new : i <= j
        kept == {i \in DOMAIN s.ejectedAnimating : i \in rows}
    IN  [s EXCEPT !.ejectedGfx = rows,
                  !.pendingEjectDir = IF doTween THEN NoDir ELSE @,
                  !.ejectedAnimating =
                      [i \in kept \cup (IF doTween THEN {first} ELSE {}) |->
                          IF i \in kept THEN s.ejectedAnimating[i] ELSE 0]]

syncFromServer(s) ==
    LET local(s0) ==
            IF HasLocalRow
            THEN LET row == playerMap[localIdentityHex]
                 IN  Then(SnapToServer(s0, row), LAMBDA a :
                        Then(SyncMass(a, row), LAMBDA b :
                            Then(SyncColor(b, row), LAMBDA c : SyncSplitCell(c))))
            ELSE s0
    IN  Then(local(s), LAMBDA s1 : Then(SyncRemotes(s1), LAMBDA s2 : SyncEjected(s2)))

\* ------------------------------------------------------------ collision detection
\* The overlap test alone, for every cached pellet whether pending or not.
checkFoodCollisionsUntracked(s) ==
    IF conn = NULL_CONN THEN {}
    ELSE {id \in DOMAIN foodMap :
            Dist2(foodMap[id].x, foodMap[id].y, s.localX, s.localY)
                < (s.localRadius + FOOD_RADIUS) * (s.localRadius + FOOD_RADIUS)}

\* The targets for which the frame dispatches a reducer call.
checkFoodCollisions(s) ==
    IF conn = NULL_CONN THEN {}
    ELSE {id \in DOMAIN foodMap :
            /\ id \notin pendingFoodEats
            /\ Dist2(foodMap[id].x, foodMap[id].y, s.localX, s.localY)
                 < (s.localRadius + FOOD_RADIUS) * (s.localRadius + FOOD_RADIUS)}

\* The ejected-mass check without the test for pellets in transit.
checkEjectedMassCollisionsInTransit(s) ==
    IF conn = NULL_CONN THEN {}
    ELSE {id \in DOMAIN ejectedMassMap :
            /\ id \notin pendingEjectedMassEats
            /\ Dist2(ejectedMassMap[id].x, ejectedMassMap[id].y, s.localX, s.localY)
                 < (s.localRadius + ejectedMassMap[id].radius)
                   * (s.localRadius + ejectedMassMap[id].radius)}

checkEjectedMassCollisions(s) ==
    IF conn = NULL_CONN THEN {}
    ELSE {id \in DOMAIN ejectedMassMap :
            /\ id \notin pendingEjectedMassEats
            /\ id \notin DOMAIN s.ejectedAnimating
            /\ Dist2(ejectedMassMap[id].x, ejectedMassMap[id].y, s.localX, s.localY)
                 < (s.localRadius + ejectedMassMap[id].radius)
                   * (s.localRadius + ejectedMassMap[id].radius)}

PlayerChecksRun == conn # NULL_CONN /\ localIdentityHex # NULL_ID

\* Stale pending entries of players no longer in the map are dropped first.
PrunePlayerEats(s) ==
    IF PlayerChecksRun
    THEN [s EXCEPT !.pendingPlayerEats = @ \cap DOMAIN playerMap]
    ELSE s

\* The masses (multiples of ten, up to 460) for which the double product
\* mass * 1.1 is rounded to a value above the exact one: 100 * 1.1 is
\* 110.00000000000001.  For every other whole mass the comparison with a whole
\* localMass comes out as with the exact product.
ProductRoundsUp ==
    {50, 90, 100, 110} \cup {m \in (170..230) \cup (330..460) : m % 10 = 0}

\* The mass test that lets any player of at least the target's mass through.
BigEnoughAtEqualMass(localMass, mass) == ~(localMass < mass)

\* !(localMass < player.mass * 1.1), for whole masses.
BigEnough(localMass, mass) ==
    ~(\/ 10 * localMass < 11 * mass
      \/ 10 * localMass = 11 * mass /\ mass \in ProductRoundsUp)

checkPlayerCollisions(s) ==
    IF ~PlayerChecksRun THEN {}
    ELSE {id \in DOMAIN playerMap :
            /\ id # localIdentityHex
            /\ id \notin s.pendingPlayerEats
            /\ BigEnough(s.localMass, playerMap[id].mass)
            /\ Dist2(playerMap[id].x, playerMap[id].y, s.localX, s.localY)
                 < s.localRadius * s.localRadius}

\* ------------------------------------------------------------ position sending
PositionDue(s) == ~(s.sincePos < POSITION_SEND_INTERVAL_MS)

sendPositionUpdate(s) == IF PositionDue(s) THEN [s EXCEPT !.sincePos = 0] ELSE s

\* The updatePosition / updateCellPosition calls a frame ending in s sends.
PositionPushes(s) ==
    IF PositionDue(s) /\ conn # NULL_CONN
    THEN {<<"updatePosition", s.localX, s.localY>>}
         \cup (IF s.splitCellId # NO_CELL /\ ~s.splitLaunching
               THEN {<<"updateCellPosition", s.splitClientX, s.splitClientY>>}
               ELSE {})
    ELSE {}

\* The cellId of the updateCellPosition call without the test for the launch
\* phase.
CellPositionTargetsInLaunch(s) ==
    IF PositionDue(s) /\ conn # NULL_CONN /\ s.splitCellId # NO_CELL
    THEN {s.splitCellId}
    ELSE {}

\* The cellId argument of the updateCellPosition call a frame ending in s
\* sends: const cellId = this.splitCellId.
CellPositionTargets(s) ==
    IF PositionDue(s) /\ conn # NULL_CONN /\ s.splitCellId # NO_CELL /\ ~s.splitLaunching
    THEN {s.splitCellId}
    ELSE {}

\* ------------------------------------------------------------ update()
\* The body of update() once isEaten has been found false.
UpdateBody(s, delta, ptr) ==
    Then(movePlayerTowardMouse(s, delta, ptr), LAMBDA a :
        Then(updateSplitCells(a, delta, ptr), LAMBDA b : syncFromServer(b)))

\* One game step: clocks and timers advance (a due respawn timer runs
\* doRespawn), then update() runs; every call it dispatches goes in flight.
\* FrameResult is what the step leaves in the scene, the pending sets and the
\* set of unsettled calls, and the position calls it sends (whose promise
\* handlers only log).
Dispatched(s2, in1) ==
    LET food == checkFoodCollisions(s2)
        em == checkEjectedMassCollisions(s2)
        s3 == PrunePlayerEats(s2)
        pl == checkPlayerCollisions(s3)
        s4 == [s3 EXCEPT !.pendingPlayerEats = @ \cup pl]
    IN  [scene |-> sendPositionUpdate(s4),
         pushes |-> PositionPushes(s4),
         cellTargets |-> CellPositionTargets(s4),
         pendingFoodEats |-> pendingFoodEats \cup food,
         pendingEjectedMassEats |-> pendingEjectedMassEats \cup em,
         inflight |->
            [in1 EXCEPT
               !.eatFood = [k \in DOMAIN @ |->
                   IF k[1] \in food /\ k[2] = conn THEN Bump(@[k]) ELSE @[k]],
               !.eatEjectedMass = [k \in DOMAIN @ |->
                   IF k[1] \in em /\ k[2] = conn THEN Bump(@[k]) ELSE @[k]],
               !.eatPlayer = [k \in DOMAIN @ |->
                   IF k[1] \in pl /\ k[2] = conn THEN Bump(@[k]) ELSE @[k]]]]

AfterTimers(s0, delta, ptr) ==
    LET fired == s0.respawnIn = 0
        s1 == IF fired THEN doRespawn(s0) ELSE s0
        in1 == IF fired /\ conn # NULL_CONN
               THEN [inflight EXCEPT !.spawnPlayer[conn] = Bump(@)]
               ELSE inflight
    IN  IF s1.isEaten
        THEN [scene |-> s1, inflight |-> in1, pushes |-> {}, cellTargets |-> {},
              pendingFoodEats |-> pendingFoodEats,
              pendingEjectedMassEats |-> pendingEjectedMassEats]
        ELSE Then(UpdateBody(s1, delta, ptr), LAMBDA s2 : Dispatched(s2, in1))

FrameResult(delta, ptr) ==
    Then(AdvanceClocks(scene, delta), LAMBDA s0 : AfterTimers(s0, delta, ptr))

Frame(delta, ptr) ==
    /\ scene.up
    /\ \E r \in {FrameResult(delta, ptr)} :
          /\ Room(r.inflight)
          /\ scene' = r.scene
          /\ inflight' = r.inflight
          /\ pendingFoodEats' = r.pendingFoodEats
          /\ pendingEjectedMassEats' = r.pendingEjectedMassEats
    /\ UNCHANGED <<generation, conn, localIdentityHex, onEatenCallback, onCellDeletedCallback,
                   cacheVars, connPhase, mounted, retired, storeVars>>

\* ------------------------------------------------------------ key handlers
\* The unit vector from the local position to the pointer, in thousandths.
DirTo(s, ptr) ==
    LET dx == ptr[1] - s.localX
        dy == ptr[2] - s.localY
        len == ISqrt(dx * dx + dy * dy)
    IN  IF len < 1 THEN NoDir ELSE <<MulDiv(dx, 1000, len), MulDiv(dy, 1000, len)>>

\* A W key press that sends its call whatever the time since the last one.
EjectSendsAtOnce(s, ptr) ==
    /\ ~s.isEaten
    /\ conn # NULL_CONN /\ DirTo(s, ptr) # NoDir

\* A W key press that sends its call from a consumed scene as well.
EjectSendsWhileEaten(s, ptr) ==
    /\ ~(s.sinceEject < EJECT_COOLDOWN_MS)
    /\ conn # NULL_CONN /\ DirTo(s, ptr) # NoDir

\* Whether a W key press in scene s gets as far as the ejectMass call.
EjectSends(s, ptr) ==
    /\ ~s.isEaten /\ ~(s.sinceEject < EJECT_COOLDOWN_MS)
    /\ conn # NULL_CONN /\ DirTo(s, ptr) # NoDir

\* Whether a space key press in scene s gets as far as the splitCell call.
SplitSends(s, ptr) ==
    /\ ~s.isEaten /\ ~(s.sinceSplit < SPLIT_COOLDOWN_MS)
    /\ conn # NULL_CONN /\ DirTo(s, ptr) # NoDir

tryEjectMass(ptr) ==
    /\ scene.up
    /\ LET dir == DirTo(scene, ptr)
           passes == ~scene.isEaten /\ ~(scene.sinceEject < EJECT_COOLDOWN_MS)
           sends == EjectSends(scene, ptr)
       IN  /\ scene' = IF ~passes THEN scene
                       ELSE [scene EXCEPT !.sinceEject = 0,
                                !.pendingEjectDir = IF sends THEN <<dir[1], dir[2], 0>> ELSE @]
           /\ inflight' = IF sends THEN [inflight EXCEPT !.ejectMass[conn] = Bump(@)]
                          ELSE inflight
    /\ Room(inflight')
    /\ UNCHANGED <<stdbVars, connPhase, mounted, retired, storeVars>>

trySplitCell(ptr) ==
    /\ scene.up
    /\ LET dir == DirTo(scene, ptr)
           passes == ~scene.isEaten /\ ~(scene.sinceSplit < SPLIT_COOLDOWN_MS)
           sends == SplitSends(scene, ptr)
       IN  /\ scene' = IF ~passes THEN scene
                       ELSE [scene EXCEPT !.sinceSplit = 0,
                                !.pendingSplitDir = IF sends THEN dir ELSE @]
           /\ inflight' = IF sends THEN [inflight EXCEPT !.splitCell[conn] = Bump(@)]
                          ELSE inflight
    /\ Room(inflight')
    /\ UNCHANGED <<stdbVars, connPhase, mounted, retired, storeVars>>

\* ------------------------------------------------------------ promise handlers
\* A call dispatched on connection g settles.  The handlers of a call sent by a
\* scene that no longer exists write to that dead scene object only.
OwnScene(g) == scene.up /\ scene.gen = g

\* eatFood has no .then: a resolved call (applied or a no-op) runs no handler.
EatFoodResolved(id, g) ==
    /\ inflight.eatFood[<<id, g>>] > 0
    /\ inflight' = [inflight EXCEPT !.eatFood[<<id, g>>] = @ - 1]
    /\ UNCHANGED <<stdbVars, connPhase, canvasVars, retired, storeVars>>

\* A rejection whose handler leaves the pending set alone.
EatFoodRejectedKeepsPending(id, g) ==
    /\ inflight.eatFood[<<id, g>>] > 0
    /\ inflight' = [inflight EXCEPT !.eatFood[<<id, g>>] = @ - 1]
    /\ UNCHANGED <<stdbVars, connPhase, canvasVars, retired, storeVars>>

\* .catch(() => pendingFoodEats.delete(foodId))
EatFoodRejected(id, g) ==
    /\ inflight.eatFood[<<id, g>>] > 0
    /\ inflight' = [inflight EXCEPT !.eatFood[<<id, g>>] = @ - 1]
    /\ pendingFoodEats' = pendingFoodEats \ {id}
    /\ UNCHANGED <<generation, conn, localIdentityHex, onEatenCallback, onCellDeletedCallback,
                   cacheVars, pendingEjectedMassEats, connPhase, canvasVars, retired, storeVars>>

EatEjectedMassResolved(id, g) ==
    /\ inflight.eatEjectedMass[<<id, g>>] > 0
    /\ inflight' = [inflight EXCEPT !.eatEjectedMass[<<id, g>>] = @ - 1]
    /\ UNCHANGED <<stdbVars, connPhase, canvasVars, retired, storeVars>>

EatEjectedMassRejected(id, g) ==
    /\ inflight.eatEjectedMass[<<id, g>>] > 0
    /\ inflight' = [inflight EXCEPT !.eatEjectedMass[<<id, g>>] = @ - 1]
    /\ pendingEjectedMassEats' = pendingEjectedMassEats \ {id}
    /\ UNCHANGED <<generation, conn, localIdentityHex, onEatenCallback, onCellDeletedCallback,
                   cacheVars, pendingFoodEats, connPhase, canvasVars, retired, storeVars>>

\* eatPlayer: .then and .catch both delete the id from the scene's set.
EatPlayerSettled(id, g) ==
    /\ inflight.eatPlayer[<<id, g>>] > 0
    /\ inflight' = [inflight EXCEPT !.eatPlayer[<<id, g>>] = @ - 1]
    /\ scene' = IF OwnScene(g) THEN [scene EXCEPT !.pendingPlayerEats = @ \ {id}] ELSE scene
    /\ UNCHANGED <<stdbVars, connPhase, mounted, retired, storeVars>>

\* ejectMass / splitCell: .catch clears the pending direction.
EjectMassResolved(g) ==
    /\ inflight.ejectMass[g] > 0
    /\ inflight' = [inflight EXCEPT !.ejectMass[g] = @ - 1]
    /\ UNCHANGED <<stdbVars, connPhase, canvasVars, retired, storeVars>>

EjectMassRejected(g) ==
    /\ inflight.ejectMass[g] > 0
    /\ inflight' = [inflight EXCEPT !.ejectMass[g] = @ - 1]
    /\ scene' = IF OwnScene(g) THEN [scene EXCEPT !.pendingEjectDir = NoDir] ELSE scene
    /\ UNCHANGED <<stdbVars, connPhase, mounted, retired, storeVars>>

SplitCellResolved(g) ==
    /\ inflight.splitCell[g] > 0
    /\ inflight' = [inflight EXCEPT !.splitCell[g] = @ - 1]
    /\ UNCHANGED <<stdbVars, connPhase, canvasVars, retired, storeVars>>

SplitCellRejected(g) ==
    /\ inflight.splitCell[g] > 0
    /\ inflight' = [inflight EXCEPT !.splitCell[g] = @ - 1]
    /\ scene' = IF OwnScene(g) THEN [scene EXCEPT !.pendingSplitDir = NoDir] ELSE scene
    /\ UNCHANGED <<stdbVars, connPhase, mounted, retired, storeVars>>

\* spawnPlayer: the Store creates or replaces the caller's row; the change
\* reaches the current connection, if it is open, as an insert or an update.
\* Its promise handlers only log.
SpawnApplied(g, row) ==
    /\ inflight.spawnPlayer[g] > 0
    /\ inflight' = [inflight EXCEPT !.spawnPlayer[g] = @ - 1]
    /\ IF generation \in Gens /\ CanDeliver(generation)
       THEN PlayerRowSet(generation, LOCAL_ID, row)
       ELSE UNCHANGED <<stdbVars, canvasVars>>
    /\ UNCHANGED <<connPhase, retired, storeVars>>

SpawnRejected(g) ==
    /\ inflight.spawnPlayer[g] > 0
    /\ inflight' = [inflight EXCEPT !.spawnPlayer[g] = @ - 1]
    /\ UNCHANGED <<stdbVars, connPhase, canvasVars, retired, storeVars>>

\* ------------------------------------------------------------ rows the channel delivers
\* A Player row with the name and colour the client asked for.
PlayerRow(x, y, mass) ==
    [x |-> x, y |-> y, mass |-> mass, color |-> PLAYER_COLOR, name |-> PLAYER_NAME]
PlayerRows == {PlayerRow(p[1], p[2], m) : p \in Points, m \in Masses}
SpawnRows == {PlayerRow(p[1], p[2], INITIAL_MASS) : p \in Points}
FoodRows == {[x |-> p[1], y |-> p[2]] : p \in Points}
EjectedRows == {[x |-> p[1], y |-> p[2], radius |-> FOOD_RADIUS + 2] : p \in Points}
CellRows(owner) ==
    {[playerIdentity |-> owner, x |-> p[1], y |-> p[2], mass |-> m] :
        p \in Points, m \in CellMasses}

\* The current connection is open: its handlers pass the generation check.
Cur == generation \in Gens /\ CanDeliver(generation)

\* Per-row causal order on the current connection: an insert for an absent id,
\* an update or a delete for a present one.  The local player's own row is
\* created by its spawnPlayer call (SpawnApplied); a row left by an earlier
\* session of the same identity arrives with the initial sync.
RemoteInserted(rows) ==
    \E id \in RemoteIds, row \in rows :
        Cur /\ id \notin DOMAIN playerMap /\ PlayerOnInsert(generation, id, row)

RemoteUpdated(rows) ==
    \E id \in RemoteIds, row \in rows :
        Cur /\ id \in DOMAIN playerMap /\ playerMap[id] # row
            /\ PlayerOnUpdate(generation, id, row)

RemoteDeleted ==
    \E id \in RemoteIds :
        Cur /\ id \in DOMAIN playerMap /\ PlayerOnDelete(generation, id)

LocalSurvived(rows) ==
    \E row \in rows :
        /\ generation \in Gens /\ connPhase[generation] = "connected"
        /\ LOCAL_ID \notin DOMAIN playerMap
        /\ PlayerOnInsert(generation, LOCAL_ID, row)

LocalUpdated(rows) ==
    \E row \in rows :
        Cur /\ LOCAL_ID \in DOMAIN playerMap /\ playerMap[LOCAL_ID] # row
            /\ PlayerOnUpdate(generation, LOCAL_ID, row)

LocalDeleted == Cur /\ LOCAL_ID \in DOMAIN playerMap /\ PlayerOnDelete(generation, LOCAL_ID)

FoodInserted(rows) ==
    \E id \in FoodIds, row \in rows :
        /\ Cur /\ id \notin DOMAIN foodMap /\ id \notin retired.food
        /\ FoodOnInsert(generation, id, row)

FoodDeleted ==
    \E id \in FoodIds : Cur /\ id \in DOMAIN foodMap /\ FoodOnDelete(generation, id)

EjectedInserted(rows) ==
    \E id \in EjectIds, row \in rows :
        /\ Cur /\ id \notin DOMAIN ejectedMassMap /\ id \notin retired.ejected
        /\ EjectedOnInsert(generation, id, row)

EjectedDeleted ==
    \E id \in EjectIds :
        Cur /\ id \in DOMAIN ejectedMassMap /\ EjectedOnDelete(generation, id)

\* The Store keeps at most one PlayerCell per player.
CellInserted ==
    \E id \in CellIds, owner \in Idents :
        \E row \in CellRows(owner) :
            /\ Cur /\ id \notin DOMAIN playerCellMap
            /\ \A c \in DOMAIN playerCellMap : playerCellMap[c].playerIdentity # owner
            /\ CellOnInsert(generation, id, row)

CellUpdated ==
    \E id \in CellIds :
        /\ Cur /\ id \in DOMAIN playerCellMap
        /\ \E row \in CellRows(playerCellMap[id].playerIdentity) :
              playerCellMap[id] # row /\ CellOnUpdate(generation, id, row)

CellDeleted ==
    \E id \in CellIds : Cur /\ id \in DOMAIN playerCellMap /\ CellOnDelete(generation, id)

\* Events of a superseded connection that is still open keep arriving.
StalePlayerDelivered ==
    \E g \in Gens :
        /\ Stale(g)
        /\ \/ \E id \in Idents, row \in PlayerRows : PlayerOnInsert(g, id, row)
           \/ \E id \in Idents, row \in PlayerRows : PlayerOnUpdate(g, id, row)
           \/ \E id \in Idents : PlayerOnDelete(g, id)

StaleFoodDelivered ==
    \E g \in Gens :
        /\ Stale(g)
        /\ \/ \E id \in FoodIds, row \in FoodRows : FoodOnInsert(g, id, row)
           \/ \E id \in FoodIds : FoodOnDelete(g, id)
           \/ \E id \in EjectIds, row \in EjectedRows : EjectedOnInsert(g, id, row)
           \/ \E id \in EjectIds : EjectedOnDelete(g, id)

StaleCellDelivered ==
    \E g \in Gens :
        /\ Stale(g)
        /\ \/ \E id \in CellIds, row \in CellRows(LOCAL_ID) : CellOnInsert(g, id, row)
           \/ \E id \in CellIds, row \in CellRows(LOCAL_ID) : CellOnUpdate(g, id, row)
           \/ \E id \in CellIds : CellOnDelete(g, id)

ConnectionEvent ==
    \E g \in Gens : OnConnect(g) \/ OnApplied(g) \/ OnDisconnect(g) \/ OnConnectError(g)

FoodEatSettled ==
    \E g \in Gens, id \in FoodIds : EatFoodResolved(id, g) \/ EatFoodRejected(id, g)

EjectedEatSettled ==
    \E g \in Gens, id \in EjectIds :
        EatEjectedMassResolved(id, g) \/ EatEjectedMassRejected(id, g)

PlayerEatSettled == \E g \in Gens, id \in RemoteIds : EatPlayerSettled(id, g)

SpawnSettled(rows) ==
    \E g \in Gens : (\E row \in rows : SpawnApplied(g, row)) \/ SpawnRejected(g)

KeySettled ==
    \E g \in Gens :
        EjectMassResolved(g) \/ EjectMassRejected(g) \/ SplitCellResolved(g) \/ SplitCellRejected(g)

FrameStep(deltas, ptrs) == \E delta \in deltas, ptr \in ptrs : Frame(delta, ptr)

KeyPressed == \E ptr \in Points : tryEjectMass(ptr) \/ trySplitCell(ptr)

\* ------------------------------------------------------------ the Store
\* The reducers of the authoritative Store, as pure operators on the record of
\* its tables.  st.next holds the next fresh id of each table and the number
\* of spawns so far.
StoreNow ==
    [players |-> sPlayers, food |-> sFood, ejected |-> sEjected, cells |-> sCells,
     next |-> sNext]

\* Values of the Store's rules.
FOOD_VALUE == 10
MASS_FLOOR == 50
EJECT_MIN_MASS == 70
EJECT_COST == 20
EJECT_DISTANCE == 30
SPLIT_MIN_MASS == 100

ClampToWorld(v, radius) == Clamp(v, radius, WORLD_SIZE - radius)

\* The cell a player owns, if any.
CellsOf(st, who) == {c \in DOMAIN st.cells : st.cells[c].owner = who}

\* spawn: creates or replaces the caller's row at the chosen position.
spawn(st, who, x, y) ==
    [st EXCEPT !.players = MapSet(@, who, [x |-> x, y |-> y, mass |-> INITIAL_MASS]),
               !.next.spawns = @ + 1]

\* A position update that stores the coordinates as they come.
updatePositionUnclamped(st, who, x, y) ==
    IF who \notin DOMAIN st.players THEN st
    ELSE [st EXCEPT !.players[who].x = x, !.players[who].y = y]

\* updatePosition: clamps and stores; no-op for an unknown identity.
updatePosition(st, who, x, y) ==
    IF who \notin DOMAIN st.players THEN st
    ELSE LET r == massToRadius(st.players[who].mass)
         IN  [st EXCEPT !.players[who].x = ClampToWorld(x, r),
                        !.players[who].y = ClampToWorld(y, r)]

\* The overlap the Store validates for a pellet or a blob of the given radius.
Overlaps(player, row, radius) ==
    Dist2(row.x, row.y, player.x, player.y)
        < (massToRadius(player.mass) + radius) * (massToRadius(player.mass) + radius)

EatFoodApplies(st, who, id) ==
    /\ who \in DOMAIN st.players
    /\ id \in DOMAIN st.food
    /\ Overlaps(st.players[who], st.food[id], FOOD_RADIUS)

\* A consumption that credits the requester without checking for the pellet.
eatFoodUnchecked(st, who, id, x, y) ==
    IF who \notin DOMAIN st.players THEN st
    ELSE [st EXCEPT !.players[who].mass = @ + FOOD_VALUE,
                    !.food = MapSet(MapDelete(@, id), st.next.food, [x |-> x, y |-> y]),
                    !.next.food = @ + 1]

\* A consumption that spawns no replacement pellet.
eatFoodNoReplacement(st, who, id, x, y) ==
    IF ~EatFoodApplies(st, who, id) THEN st
    ELSE [st EXCEPT !.players[who].mass = @ + FOOD_VALUE,
                    !.food = MapDelete(@, id)]

\* eatFood: mass grows by the pellet value, the pellet goes, and a replacement
\* with a fresh id appears at (x, y).
eatFood(st, who, id, x, y) ==
    IF ~EatFoodApplies(st, who, id) THEN st
    ELSE [st EXCEPT !.players[who].mass = @ + FOOD_VALUE,
                    !.food = MapSet(MapDelete(@, id), st.next.food, [x |-> x, y |-> y]),
                    !.next.food = @ + 1]

EatEjectedApplies(st, who, id) ==
    /\ who \in DOMAIN st.players
    /\ id \in DOMAIN st.ejected
    /\ Overlaps(st.players[who], st.ejected[id], st.ejected[id].radius)

eatEjectedMass(st, who, id) ==
    IF ~EatEjectedApplies(st, who, id) THEN st
    ELSE [st EXCEPT !.players[who].mass = @ + st.ejected[id].mass,
                    !.ejected = MapDelete(@, id)]

\* The symmetric test instead: the two circles intersect.
EatPlayerAppliesSymmetric(st, a, b) ==
    /\ a \in DOMAIN st.players /\ b \in DOMAIN st.players /\ a # b
    /\ 10 * st.players[a].mass >= 11 * st.players[b].mass
    /\ Dist2(st.players[b].x, st.players[b].y, st.players[a].x, st.players[a].y)
         < (massToRadius(st.players[a].mass) + massToRadius(st.players[b].mass))
           * (massToRadius(st.players[a].mass) + massToRadius(st.players[b].mass))

\* The one-sided test: mass(a) >= 1.1 * mass(b) and b's centre inside a's radius.
EatPlayerApplies(st, a, b) ==
    /\ a \in DOMAIN st.players /\ b \in DOMAIN st.players /\ a # b
    /\ 10 * st.players[a].mass >= 11 * st.players[b].mass
    /\ Dist2(st.players[b].x, st.players[b].y, st.players[a].x, st.players[a].y)
         < massToRadius(st.players[a].mass) * massToRadius(st.players[a].mass)

\* eatPlayer: on success the target's mass goes to the requester and the
\* target's row is deleted, together with the secondary cell the target owns.
eatPlayer(st, a, b) ==
    IF ~EatPlayerApplies(st, a, b) THEN st
    ELSE [st EXCEPT !.players = MapDelete([@ EXCEPT ![a].mass = @ + st.players[b].mass], b),
                    !.cells = [c \in DOMAIN @ \ CellsOf(st, b) |-> @[c]]]

\* An eject that deducts the cost whatever the mass.
ejectMassUnchecked(st, who, dx, dy) ==
    IF who \notin DOMAIN st.players THEN st
    ELSE LET pl == st.players[who]
             blob == [x |-> ClampToWorld(pl.x + dx * EJECT_DISTANCE, FOOD_RADIUS + 2),
                      y |-> ClampToWorld(pl.y + dy * EJECT_DISTANCE, FOOD_RADIUS + 2),
                      mass |-> EJECT_COST, radius |-> FOOD_RADIUS + 2, owner |-> who]
         IN  [st EXCEPT !.players[who].mass = @ - EJECT_COST,
                        !.ejected = MapSet(@, st.next.ejected, blob),
                        !.next.ejected = @ + 1]

\* ejectMass: needs the minimum mass; the blob appears along the direction.
ejectMass(st, who, dx, dy) ==
    IF who \notin DOMAIN st.players \/ st.players[who].mass < EJECT_MIN_MASS THEN st
    ELSE LET pl == st.players[who]
             blob == [x |-> ClampToWorld(pl.x + dx * EJECT_DISTANCE, FOOD_RADIUS + 2),
                      y |-> ClampToWorld(pl.y + dy * EJECT_DISTANCE, FOOD_RADIUS + 2),
                      mass |-> EJECT_COST, radius |-> FOOD_RADIUS + 2, owner |-> who]
         IN  [st EXCEPT !.players[who].mass = @ - EJECT_COST,
                        !.ejected = MapSet(@, st.next.ejected, blob),
                        !.next.ejected = @ + 1]

\* The threshold test alone, whether or not the player already has a cell.
SplitCellAppliesAgain(st, who) ==
    /\ who \in DOMAIN st.players
    /\ st.players[who].mass >= SPLIT_MIN_MASS

SplitCellApplies(st, who) ==
    /\ who \in DOMAIN st.players
    /\ CellsOf(st, who) = {}
    /\ st.players[who].mass >= SPLIT_MIN_MASS

\* splitCell: halves the mass between the player and a new PlayerCell; the
\* merge timer of the new cell is then running (MergeTimerFires).
splitCell(st, who, dx, dy) ==
    IF ~SplitCellApplies(st, who) THEN st
    ELSE LET pl == st.players[who]
             half == pl.mass \div 2
             cell == [owner |-> who, x |-> pl.x, y |-> pl.y, mass |-> half]
         IN  [st EXCEPT !.players[who].mass = @ - half,
                        !.cells = MapSet(@, st.next.cell, cell),
                        !.next.cell = @ + 1]

\* The server-driven merge: the cell goes and its mass returns to its owner.
mergeCell(st, c) ==
    IF c \notin DOMAIN st.cells THEN st
    ELSE LET cell == st.cells[c]
         IN  [st EXCEPT !.cells = MapDelete(@, c),
                        !.players = IF cell.owner \in DOMAIN @
                                    THEN [@ EXCEPT ![cell.owner].mass = @ + cell.mass]
                                    ELSE @]

\* A cell update that moves the cell for any caller.
updateCellPositionByAnyone(st, who, c, x, y) ==
    IF c \notin DOMAIN st.cells THEN st
    ELSE LET r == massToRadius(st.cells[c].mass)
         IN  [st EXCEPT !.cells[c].x = ClampToWorld(x, r),
                        !.cells[c].y = ClampToWorld(y, r)]

\* updateCellPosition: only the owner moves a cell.
updateCellPosition(st, who, c, x, y) ==
    IF c \notin DOMAIN st.cells \/ st.cells[c].owner # who THEN st
    ELSE LET r == massToRadius(st.cells[c].mass)
         IN  [st EXCEPT !.cells[c].x = ClampToWorld(x, r),
                        !.cells[c].y = ClampToWorld(y, r)]

\* A despawn that deletes the player's row and leaves its cell.
despawnPlayerOnly(st, who) ==
    [st EXCEPT !.players = MapDelete(@, who)]

\* despawn: the player's row and the cell it owns go.
despawn(st, who) ==
    [st EXCEPT !.players = MapDelete(@, who),
               !.cells = [c \in DOMAIN @ \ CellsOf(st, who) |-> @[c]]]

\* A reducer call: who calls what, with a target id or identity and a point
\* or direction.
Call(op, who, id, target, x, y) ==
    [op |-> op, who |-> who, id |-> id, target |-> target, x |-> x, y |-> y]

\* The transaction a call runs.
Reduce(st, c) ==
    CASE c.op = "spawn" -> spawn(st, c.who, c.x, c.y)
      [] c.op = "updatePosition" -> updatePosition(st, c.who, c.x, c.y)
      [] c.op = "eatFood" -> eatFood(st, c.who, c.id, c.x, c.y)
      [] c.op = "eatEjectedMass" -> eatEjectedMass(st, c.who, c.id)
      [] c.op = "eatPlayer" -> eatPlayer(st, c.who, c.target)
      [] c.op = "ejectMass" -> ejectMass(st, c.who, c.x, c.y)
      [] c.op = "splitCell" -> splitCell(st, c.who, c.x, c.y)
      [] c.op = "updateCellPosition" -> updateCellPosition(st, c.who, c.id, c.x, c.y)
      [] c.op = "despawn" -> despawn(st, c.who)

\* The tables take the values of st.
StoreBecomes(st) ==
    /\ sPlayers' = st.players /\ sFood' = st.food /\ sEjected' = st.ejected
    /\ sCells' = st.cells /\ sNext' = st.next

\* ------------------------------------------------------------ Store steps
\* Clients submit calls at any time; the Store runs the submitted calls one at
\* a time, each as one transaction, in any order.
Submit(calls) ==
    \E c \in calls :
        /\ c \notin sCalls
        /\ Cardinality(sCalls) < MaxCalls
        /\ sNext.submitted < MaxSubmitted
        /\ sCalls' = sCalls \cup {c}
        /\ sNext' = [sNext EXCEPT !.submitted = @ + 1]
        /\ UNCHANGED <<sPlayers, sFood, sEjected, sCells, sEatLog, clientVars>>

\* What the log records of an eatFood transaction: a win, or a loss to an
\* earlier consumer of the same pellet.
Logged(st, c) ==
    IF c.op # "eatFood" THEN sEatLog
    ELSE LET old == IF c.id \in DOMAIN sEatLog THEN sEatLog[c.id]
                    ELSE [won |-> 0, lost |-> 0]
         IN  IF EatFoodApplies(st, c.who, c.id)
             THEN MapSet(sEatLog, c.id, [old EXCEPT !.won = @ + 1])
             ELSE IF c.id \notin DOMAIN st.food /\ c.id < st.next.food
             THEN MapSet(sEatLog, c.id, [old EXCEPT !.lost = @ + 1])
             ELSE sEatLog

Execute ==
    \E c \in sCalls :
        /\ sCalls' = sCalls \ {c}
        /\ \E st \in {Reduce(StoreNow, c)} : StoreBecomes(st)
        /\ sEatLog' = Logged(StoreNow, c)
        /\ UNCHANGED clientVars

MergeTimerFires ==
    \E c \in DOMAIN sCells :
        /\ \E st \in {mergeCell(StoreNow, c)} : StoreBecomes(st)
        /\ UNCHANGED <<sCalls, sEatLog, clientVars>>

\* The Store before any client connects.  In the specifications of the client
\* the Store is represented by the events the channel delivers, and its tables
\* stay as they are here.
StoreIdle ==
    /\ sPlayers = EmptyMap /\ sFood = EmptyMap /\ sEjected = EmptyMap /\ sCells = EmptyMap
    /\ sNext = [food |-> 1, ejected |-> 1, cell |-> 1, spawns |-> 0, submitted |-> 0]
    /\ sCalls = {} /\ sEatLog = EmptyMap

\* The Store after its init: the initial pellet is on the map.
StoreSeeded ==
    /\ sPlayers = EmptyMap /\ sEjected = EmptyMap /\ sCells = EmptyMap
    /\ sFood = MapSet(EmptyMap, 1, [x |-> FirstPelletAt[1], y |-> FirstPelletAt[2]])
    /\ sNext = [food |-> 2, ejected |-> 1, cell |-> 1, spawns |-> 0, submitted |-> 0]
    /\ sCalls = {} /\ sEatLog = EmptyMap

\* ------------------------------------------------------------ specifications
ClientInit ==
    /\ generation = 0
    /\ conn = NULL_CONN
    /\ localIdentityHex = NULL_ID
    /\ onEatenCallback = 0
    /\ onCellDeletedCallback = 0
    /\ playerMap = EmptyMap /\ foodMap = EmptyMap
    /\ ejectedMassMap = EmptyMap /\ playerCellMap = EmptyMap
    /\ pendingFoodEats = {} /\ pendingEjectedMassEats = {}
    /\ connPhase = [g \in Gens |-> "none"]
    /\ inflight = NoInflight
    /\ retired = [food |-> {}, ejected |-> {}]
    /\ mounted = FALSE
    /\ scene = NoScene

Init == ClientInit /\ StoreIdle

\* Rows the specifications below let the Store deliver.
FarRow == PlayerRow(50, 40, INITIAL_MASS)
BigRow == PlayerRow(50, 40, 4 * INITIAL_MASS)
NearPoint == <<20, 40>>
FarPoint == <<50, 40>>
NearSpawn == PlayerRow(20, 40, INITIAL_MASS)
SmallRow == PlayerRow(20, 40, INITIAL_MASS \div 2)
NearPellet == [x |-> 20, y |-> 40]
NearBlob == [x |-> 20, y |-> 40, radius |-> FOOD_RADIUS + 2]
NearRows == {PlayerRow(20, 40, m) : m \in Masses}

\* The lifecycle of the local player: connect, spawn, be consumed, respawn,
\* reconnect; another, bigger player comes and goes.
NextLife ==
    \/ Mount \/ SceneCreate \/ Unmount
    \/ ConnectionEvent
    \/ RemoteInserted({BigRow}) \/ RemoteDeleted
    \/ LocalSurvived(NearRows) \/ LocalUpdated(NearRows) \/ LocalDeleted
    \/ StalePlayerDelivered
    \/ SpawnSettled(SpawnRows)
    \/ FrameStep(LongDeltas, Points)

SpecLife == Init /\ [][NextLife]_vars

\* Consumption of food, ejected mass and other players by a client that is
\* not itself consumed.
NextEat ==
    \/ Mount \/ SceneCreate \/ Unmount
    \/ ConnectionEvent
    \/ RemoteInserted({FarRow}) \/ RemoteDeleted
    \/ LocalUpdated(NearRows)
    \/ FoodInserted(FoodRows) \/ FoodDeleted
    \/ EjectedInserted({NearBlob}) \/ EjectedDeleted
    \/ StaleFoodDelivered
    \/ FoodEatSettled \/ EjectedEatSettled \/ PlayerEatSettled
    \/ SpawnSettled({NearSpawn})
    \/ FrameStep(Deltas, {NearPoint})

SpecEat == Init /\ [][NextEat]_vars

\* One session in which every call settles and frames keep running: the fair
\* version of the consumption specification, without reconnects.
NextPending ==
    \/ Mount \/ SceneCreate
    \/ ConnectionEvent
    \/ RemoteInserted({SmallRow}) \/ RemoteDeleted
    \/ FoodInserted({NearPellet}) \/ FoodDeleted
    \/ EjectedInserted({NearBlob}) \/ EjectedDeleted
    \/ FoodEatSettled \/ EjectedEatSettled \/ PlayerEatSettled
    \/ SpawnSettled({NearSpawn})
    \/ FrameStep(Deltas, {NearPoint})

PendingFairness ==
    /\ WF_vars(FrameStep(Deltas, {NearPoint}))
    /\ WF_vars(FoodEatSettled)
    /\ WF_vars(EjectedEatSettled)
    /\ WF_vars(PlayerEatSettled)
    /\ WF_vars(SpawnSettled({NearSpawn}))

SpecPendingFair == Init /\ [][NextPending]_vars /\ PendingFairness

\* One session whose connection stays open and whose spawn calls are applied:
\* the local player is consumed and respawns, again and again.
ConnectionOpens == \E g \in Gens : OnConnect(g) \/ OnApplied(g)
SpawnGranted == \E g \in Gens, row \in SpawnRows : SpawnApplied(g, row)
\* A frame whose update() runs with the local row in the cache.
FrameAlive == FrameStep(LongDeltas, Points) /\ HasLocalRow /\ ~scene.isEaten

NextRespawn ==
    \/ Mount \/ SceneCreate
    \/ ConnectionOpens
    \/ RemoteInserted({BigRow}) \/ RemoteDeleted
    \/ LocalUpdated(NearRows) \/ LocalDeleted
    \/ SpawnGranted
    \/ FrameStep(LongDeltas, Points)

\* Timers and frames are driven by the clock, whatever the network does: a
\* frame that is possible again and again does run.  Calls are applied and
\* the game becomes ready.
RespawnFairness ==
    /\ WF_vars(SceneCreate)
    /\ WF_vars(ConnectionOpens)
    /\ WF_vars(SpawnGranted)
    /\ WF_vars(FrameStep(LongDeltas, Points))
    /\ SF_vars(FrameAlive)

SpecRespawnFair == Init /\ [][NextRespawn]_vars /\ RespawnFairness

\* The local player's row as another session of the same identity leaves it
\* when it spawns under another name and colour.
RestyledRows == {[PlayerRow(20, 40, m) EXCEPT !.color = 2, !.name = "Bob"] : m \in Masses}

\* One session in which the Store rewrites the local player's row.
NextLook ==
    \/ Mount \/ SceneCreate
    \/ ConnectionOpens
    \/ SpawnGranted
    \/ LocalUpdated(NearRows \cup RestyledRows) \/ LocalDeleted
    \/ FrameStep(LongDeltas, Points)

SpecLook == Init /\ [][NextLook]_vars

\* The local player among players of its own size: it is a tenth heavier
\* than them, or four times as heavy, or as heavy.
HuntRows == {PlayerRow(20, 40, m) : m \in {110, 400}}
PreyRows == {PlayerRow(p[1], p[2], INITIAL_MASS) : p \in Points}

NextHunt ==
    \/ Mount \/ SceneCreate
    \/ ConnectionOpens
    \/ SpawnGranted
    \/ LocalUpdated(HuntRows)
    \/ RemoteInserted(PreyRows) \/ RemoteUpdated(PreyRows) \/ RemoteDeleted
    \/ PlayerEatSettled
    \/ FrameStep(Deltas, {NearPoint})

SpecHunt == Init /\ [][NextHunt]_vars

\* The Store alone, under calls of two clients.
EatingCalls ==
    {Call("spawn", who, 0, NULL_ID, p[1], p[2]) : who \in Idents, p \in Points}
    \cup {Call("eatFood", who, id, NULL_ID, NextPelletAt[1], NextPelletAt[2]) :
            who \in Idents, id \in FoodIds}
    \cup {Call("eatPlayer", who, 0, other, 0, 0) : who \in Idents, other \in Idents}
    \cup {Call("splitCell", who, 0, NULL_ID, 1, 0) : who \in Idents}
    \cup {Call("despawn", who, 0, NULL_ID, 0, 0) : who \in Idents}

NextStore == Submit(EatingCalls) \/ Execute \/ MergeTimerFires

\* The client is idle and the Store holds its first pellet.
InitStore == ClientInit /\ StoreSeeded

SpecStore == InitStore /\ [][NextStore]_vars

\* The Store under position updates with coordinates inside and outside the
\* world, from players that exist and from identities it does not know.
WildCoords == {-5, WORLD_SIZE + 5}
MoveCalls ==
    {Call("spawn", who, 0, NULL_ID, p[1], p[2]) : who \in Idents, p \in Points}
    \cup {Call("updatePosition", who, 0, NULL_ID, x, y) :
            who \in Idents, x \in WildCoords, y \in WildCoords}
    \cup {Call("despawn", who, 0, NULL_ID, 0, 0) : who \in Idents}

NextMove == Submit(MoveCalls) \/ Execute

SpecMove == Init /\ [][NextMove]_vars

\* The Store under the calls that move mass about: ejects, splits, merges
\* and the consumption of blobs and of players.
MassCalls ==
    {Call("spawn", who, 0, NULL_ID, p[1], p[2]) : who \in Idents, p \in Points}
    \cup {Call("ejectMass", who, 0, NULL_ID, 1, 0) : who \in Idents}
    \cup {Call("splitCell", who, 0, NULL_ID, 1, 0) : who \in Idents}
    \cup {Call("eatEjectedMass", who, id, NULL_ID, 0, 0) : who \in Idents, id \in EjectIds}
    \cup {Call("eatPlayer", who, 0, other, 0, 0) : who \in Idents, other \in Idents}

NextMass == Submit(MassCalls) \/ Execute \/ MergeTimerFires

SpecMass == Init /\ [][NextMass]_vars

\* The Store under requests that come too late or ask too much: pellets and
\* blobs that are not there, players too big or too far to eat, ejects and
\* splits by players that are too light, cells moved by another player.
DoubtfulCalls ==
    {Call("spawn", who, 0, NULL_ID, p[1], p[2]) : who \in Idents, p \in Points}
    \cup {Call("eatFood", who, id, NULL_ID, NextPelletAt[1], NextPelletAt[2]) :
            who \in Idents, id \in FoodIds}
    \cup {Call("eatEjectedMass", who, id, NULL_ID, 0, 0) : who \in Idents, id \in EjectIds}
    \cup {Call("eatPlayer", who, 0, other, 0, 0) : who \in Idents, other \in Idents}
    \cup {Call("ejectMass", who, 0, NULL_ID, 1, 0) : who \in Idents}
    \cup {Call("splitCell", who, 0, NULL_ID, 1, 0) : who \in Idents}
    \cup {Call("updateCellPosition", who, 1, NULL_ID, 25, 45) : who \in Idents}

NextDoubtful == Submit(DoubtfulCalls) \/ Execute \/ MergeTimerFires

SpecDoubtful == Init /\ [][NextDoubtful]_vars

\* One session in which the local player is consumed and respawns among a
\* pellet and a smaller player that lie under its circle, while the keys are
\* pressed and the frames run.
NextFrozen ==
    \/ Mount \/ SceneCreate
    \/ ConnectionOpens
    \/ SpawnGranted
    \/ LocalDeleted
    \/ FoodInserted({NearPellet})
    \/ RemoteInserted({SmallRow})
    \/ FoodEatSettled \/ PlayerEatSettled \/ KeySettled
    \/ KeyPressed
    \/ FrameStep(LongDeltas, Points)

SpecFrozen == Init /\ [][NextFrozen]_vars

\* One session in which the local player splits: space is pressed, the
\* Store grants or refuses the split, the PlayerCell row comes and goes (the
\* merge), the player is consumed and respawns.  Frames of a fifth of a
\* second let a launch and a merge last several frames.
SplitDeltas == {200}
SplitPressed == \E ptr \in Points : trySplitCell(ptr)
SplitSettled == \E g \in Gens : SplitCellResolved(g) \/ SplitCellRejected(g)
\* The Store's row for a split of the local player arrives.  The Store keeps
\* one cell per player and never reuses an id: the row carries an id that the
\* scene is not tracking at that moment, which is all the scene can tell of
\* an id it has never seen.
LocalCellInserted ==
    \E id \in CellIds, row \in CellRows(LOCAL_ID) :
        /\ Cur /\ playerCellMap = EmptyMap
        /\ scene.up => scene.splitCellId # id
        /\ CellOnInsert(generation, id, row)

NextSplit ==
    \/ Mount \/ SceneCreate
    \/ ConnectionOpens
    \/ SpawnGranted
    \/ LocalDeleted
    \/ LocalCellInserted \/ CellDeleted
    \/ SplitPressed \/ SplitSettled
    \/ FrameStep(SplitDeltas, {FarPoint})

SpecSplit == Init /\ [][NextSplit]_vars

\* One session in which W and space are pressed between frames of a tenth
\* of a second, so that presses fall inside and outside both cooldowns.
KeyDeltas == {100}

NextKeys ==
    \/ Mount \/ SceneCreate
    \/ ConnectionOpens
    \/ SpawnGranted
    \/ KeyPressed \/ KeySettled
    \/ FrameStep(KeyDeltas, {FarPoint})

SpecKeys == Init /\ [][NextKeys]_vars

\* One session in which the local player ejects mass: W is pressed, the
\* Store's pellet row arrives next to the player and is tweened, is eaten or
\* deleted; the player is consumed and respawns.
EjectPressed == \E ptr \in Points : tryEjectMass(ptr)
EjectSettled == \E g \in Gens : EjectMassResolved(g) \/ EjectMassRejected(g)

NextTransit ==
    \/ Mount \/ SceneCreate
    \/ ConnectionOpens
    \/ SpawnGranted
    \/ LocalDeleted
    \/ EjectPressed \/ EjectSettled
    \/ EjectedInserted({NearBlob}) \/ EjectedDeleted
    \/ EjectedEatSettled
    \/ FrameStep(KeyDeltas, Points)

SpecTransit == Init /\ [][NextTransit]_vars

\* The same session next to another player that ejects mass: the rows that
\* arrive carry that player as their owner.
ForeignBlob == [x |-> 20, y |-> 40, radius |-> FOOD_RADIUS + 2, owner |-> "p2"]

NextForeign ==
    \/ Mount \/ SceneCreate
    \/ ConnectionOpens
    \/ SpawnGranted
    \/ EjectPressed \/ EjectSettled
    \/ EjectedInserted({ForeignBlob}) \/ EjectedDeleted
    \/ EjectedEatSettled
    \/ FrameStep(KeyDeltas, Points)

SpecForeign == Init /\ [][NextForeign]_vars

\* One session in which the Store's cell of the local player comes and goes
\* while the pointer keeps the primary cell moving: the merge animation runs
\* after a primary cell that does not stand still.
\* The pointer rests on the spawn point or far to the right of it, more than
\* a merge's whole time away at the primary cell's speed.
MergePoints == {NearPoint, <<170, 40>>}

NextMerge ==
    \/ Mount \/ SceneCreate
    \/ ConnectionOpens
    \/ SpawnGranted
    \/ LocalCellInserted \/ CellDeleted
    \/ FrameStep(KeyDeltas, MergePoints)

SpecMerge == Init /\ [][NextMerge]_vars

\* The game loop keeps running frames; only those of a running merge matter.
MergeFrame == scene.up /\ scene.splitMerging /\ FrameStep(KeyDeltas, MergePoints)
MergeFairness == WF_vars(MergeFrame)

SpecMergeFair == Init /\ [][NextMerge]_vars /\ MergeFairness

\* At-least-once delivery: the current connection hands a handler the insert
\* of a row that is already cached, with the same row.
PlayerRedelivered ==
    \E id \in DOMAIN playerMap : Cur /\ PlayerOnInsert(generation, id, playerMap[id])
FoodRedelivered ==
    \E id \in DOMAIN foodMap : Cur /\ FoodOnInsert(generation, id, foodMap[id])
EjectedRedelivered ==
    \E id \in DOMAIN ejectedMassMap :
        Cur /\ EjectedOnInsert(generation, id, ejectedMassMap[id])
CellRedelivered ==
    \E id \in DOMAIN playerCellMap : Cur /\ CellOnInsert(generation, id, playerCellMap[id])
InsertRedelivered ==
    PlayerRedelivered \/ FoodRedelivered \/ EjectedRedelivered \/ CellRedelivered

\* One session in which rows of every table arrive, pellets and blobs are
\* eaten, and inserts are delivered again.
NextRedeliver ==
    \/ Mount \/ SceneCreate
    \/ ConnectionOpens
    \/ SpawnGranted
    \/ RemoteInserted({FarRow})
    \/ FoodInserted({NearPellet}) \/ FoodDeleted
    \/ EjectedInserted({NearBlob}) \/ EjectedDeleted
    \/ LocalCellInserted
    \/ FoodEatSettled \/ EjectedEatSettled
    \/ InsertRedelivered
    \/ FrameStep(Deltas, {NearPoint})

SpecRedeliver == Init /\ [][NextRedeliver]_vars

\* Targets of all three kinds come and go around a client that eats them,
\* loses its connection and is unmounted.
NextVanish ==
    \/ Mount \/ SceneCreate \/ Unmount
    \/ ConnectionEvent
    \/ SpawnGranted
    \/ RemoteInserted({SmallRow}) \/ RemoteDeleted
    \/ FoodInserted({NearPellet}) \/ FoodDeleted
    \/ EjectedInserted({NearBlob}) \/ EjectedDeleted
    \/ FoodEatSettled \/ EjectedEatSettled \/ PlayerEatSettled
    \/ FrameStep(KeyDeltas, {NearPoint})

SpecVanish == Init /\ [][NextVanish]_vars

\* Mounts and unmounts in which the connections that were replaced stay open
\* and keep delivering their connection events and row events of all four
\* tables, next to the events of the current connection.
NextStale ==
    \/ Mount \/ SceneCreate \/ Unmount
    \/ ConnectionEvent
    \/ LocalSurvived({NearSpawn})
    \/ RemoteInserted({FarRow}) \/ RemoteDeleted
    \/ FoodInserted({NearPellet}) \/ FoodDeleted
    \/ EjectedInserted({NearBlob}) \/ EjectedDeleted
    \/ LocalCellInserted \/ CellDeleted
    \/ StalePlayerDelivered \/ StaleFoodDelivered \/ StaleCellDelivered

SpecStale == Init /\ [][NextStale]_vars

\* Mounts and unmounts of a client that eats pellets and ejected mass: the
\* cleanup runs while eat calls are unsettled, and the closed connections go
\* on delivering.
NextCleanup ==
    \/ Mount \/ SceneCreate \/ Unmount
    \/ ConnectionEvent
    \/ LocalSurvived({NearSpawn})
    \/ RemoteInserted({FarRow})
    \/ FoodInserted({NearPellet}) \/ FoodDeleted
    \/ EjectedInserted({NearBlob}) \/ EjectedDeleted
    \/ StalePlayerDelivered \/ StaleFoodDelivered \/ StaleCellDelivered
    \/ FoodEatSettled \/ EjectedEatSettled
    \/ FrameStep(KeyDeltas, {NearPoint})

SpecCleanup == Init /\ [][NextCleanup]_vars

Spec == SpecLife

\* ============================================================ properties
\* C1: under fairness of frames and of call settlement, every id that enters
\* pendingFoodEats, pendingEjectedMassEats or pendingPlayerEats eventually
\* leaves it again.
C1_PendingEventuallyClears ==
    /\ \A id \in FoodIds : (id \in pendingFoodEats) ~> (id \notin pendingFoodEats)
    /\ \A id \in EjectIds :
          (id \in pendingEjectedMassEats) ~> (id \notin pendingEjectedMassEats)
    /\ \A id \in RemoteIds :
          (scene.up /\ id \in scene.pendingPlayerEats)
              ~> ~(scene.up /\ id \in scene.pendingPlayerEats)

\* The part of C1 about pendingPlayerEats alone (both promise handlers clear it).
C1_PlayerPendingClears ==
    \A id \in RemoteIds :
        (scene.up /\ id \in scene.pendingPlayerEats)
            ~> ~(scene.up /\ id \in scene.pendingPlayerEats)

\* A food id is pending, its call has settled, and the pellet is still cached.
C1_StuckFood ==
    \E id \in FoodIds :
        /\ id \in pendingFoodEats
        /\ id \in DOMAIN foodMap
        /\ \A g \in Gens : inflight.eatFood[<<id, g>>] = 0

\* Unsettled eat calls of this client for one target, over all its connections.
UnresolvedFood(id) == SumOver([g \in Gens |-> inflight.eatFood[<<id, g>>]], Gens)
UnresolvedEjected(id) == SumOver([g \in Gens |-> inflight.eatEjectedMass[<<id, g>>]], Gens)
UnresolvedPlayer(id) == SumOver([g \in Gens |-> inflight.eatPlayer[<<id, g>>]], Gens)

\* C2 as stated: at any moment at most one eat call of this client per target
\* id is unresolved.
C2_AtMostOneUnresolved ==
    /\ \A id \in FoodIds : UnresolvedFood(id) <= 1
    /\ \A id \in EjectIds : UnresolvedEjected(id) <= 1
    /\ \A id \in RemoteIds : UnresolvedPlayer(id) <= 1

\* C2, amended: a step dispatches an eat call for an id only on the current
\* connection, only when the id is not in the matching pending set, one call
\* at a time, and it leaves the id in that set.
C2_DispatchOnlyWhenNotPending ==
    [][ /\ \A id \in FoodIds, g \in Gens :
              inflight'.eatFood[<<id, g>>] > inflight.eatFood[<<id, g>>]
                  => /\ g = conn
                     /\ id \notin pendingFoodEats
                     /\ id \in pendingFoodEats'
                     /\ inflight'.eatFood[<<id, g>>] = inflight.eatFood[<<id, g>>] + 1
        /\ \A id \in EjectIds, g \in Gens :
              inflight'.eatEjectedMass[<<id, g>>] > inflight.eatEjectedMass[<<id, g>>]
                  => /\ g = conn
                     /\ id \notin pendingEjectedMassEats
                     /\ id \in pendingEjectedMassEats'
                     /\ inflight'.eatEjectedMass[<<id, g>>]
                            = inflight.eatEjectedMass[<<id, g>>] + 1
        /\ \A id \in RemoteIds, g \in Gens :
              inflight'.eatPlayer[<<id, g>>] > inflight.eatPlayer[<<id, g>>]
                  => /\ g = conn
                     /\ id \notin scene.pendingPlayerEats
                     /\ id \in scene'.pendingPlayerEats
                     /\ inflight'.eatPlayer[<<id, g>>] = inflight.eatPlayer[<<id, g>>] + 1
      ]_vars

\* A pellet the local circle overlaps is pending with its call in flight: the
\* next frame meets the pending test.
C2_PendingBlocksDispatch ==
    \E id \in FoodIds :
        /\ scene.up /\ conn # NULL_CONN
        /\ id \in pendingFoodEats
        /\ id \in checkFoodCollisionsUntracked(scene)
        /\ inflight.eatFood[<<id, conn>>] = 1

\* C3 as stated: a callback captured under a connection that is no longer
\* the current one changes no replica cache, pending set or local identity.
C3_StaleCallbacksInert ==
    [][ \A g \in Gens :
          (Stale(g) /\ generation \in Gens /\ connPhase[generation] # "none")
          => ( ( \/ OnConnect(g) \/ OnApplied(g) \/ OnDisconnect(g) \/ OnConnectError(g)
                 \/ \E id \in Idents, row \in PlayerRows :
                        PlayerOnInsert(g, id, row) \/ PlayerOnUpdate(g, id, row)
                 \/ \E id \in Idents : PlayerOnDelete(g, id)
                 \/ \E id \in FoodIds, row \in FoodRows : FoodOnInsert(g, id, row)
                 \/ \E id \in FoodIds : FoodOnDelete(g, id)
                 \/ \E id \in EjectIds, row \in EjectedRows : EjectedOnInsert(g, id, row)
                 \/ \E id \in EjectIds : EjectedOnDelete(g, id)
                 \/ \E id \in FoodIds : EatFoodResolved(id, g) \/ EatFoodRejected(id, g)
                 \/ \E id \in EjectIds :
                        EatEjectedMassResolved(id, g) \/ EatEjectedMassRejected(id, g)
                 \/ \E id \in RemoteIds : EatPlayerSettled(id, g) )
               => UNCHANGED <<cacheVars, pendingFoodEats, pendingEjectedMassEats,
                              localIdentityHex, scene>> )
      ]_vars

\* A call of an earlier connection is unsettled while its target id is pending
\* again under the current connection.
C3_StaleCallOutstanding ==
    \E id \in FoodIds, g \in Gens :
        /\ Stale(g) /\ conn = generation
        /\ inflight.eatFood[<<id, g>>] > 0
        /\ id \in pendingFoodEats

\* C7: the scene enters the consumed state only in a step that delivers, on
\* the current and open connection, the delete of the row stored under the
\* local identity, while conn is set; cleanup and deletes of other players'
\* rows never do it.
C7_ConsumedOnlyOnOwnDelete ==
    [][ (scene.up /\ scene'.up /\ ~scene.isEaten /\ scene'.isEaten)
        => /\ conn # NULL_CONN /\ conn' = conn
           /\ generation' = generation /\ CanDeliver(generation)
           /\ localIdentityHex # NULL_ID
           /\ localIdentityHex \in DOMAIN playerMap
           /\ playerMap' = MapDelete(playerMap, localIdentityHex)
           /\ scene' = handleEaten(scene)
      ]_vars

\* The scene has just been consumed: the respawn timer is at its full delay
\* and another player's row is still cached.
C7_JustConsumed ==
    /\ scene.up /\ scene.isEaten /\ scene.respawnIn = RESPAWN_DELAY_MS
    /\ conn # NULL_CONN
    /\ LOCAL_ID \notin DOMAIN playerMap
    /\ \E id \in RemoteIds : id \in DOMAIN playerMap

\* The position the cache holds for the local player.
LocalRowPos == <<playerMap[localIdentityHex].x, playerMap[localIdentityHex].y>>
ScenePos(s) == <<s.localX, s.localY>>

\* C9: within one scene, (1) the position does not change in a step that ends
\* with serverPositionInitialized clear, so no prediction runs before the snap
\* and a reset keeps the position; (2) the step that sets the flag finds the
\* local row and leaves the position equal to the row's; (3) while the flag
\* stays set the position changes only by a prediction step, never from the
\* row; (4) the flag is cleared only by the consumed transition; and (5) every
\* frame whose update() runs with the flag clear and the local row cached
\* performs the snap.
C9_SnapOnceBeforePrediction ==
    [][ (scene.up /\ scene'.up)
        => /\ ~scene'.serverPositionInitialized => ScenePos(scene') = ScenePos(scene)
           /\ (~scene.serverPositionInitialized /\ scene'.serverPositionInitialized)
                 => /\ HasLocalRow /\ playerMap' = playerMap
                    /\ ScenePos(scene') = LocalRowPos
           /\ (scene.serverPositionInitialized /\ scene'.serverPositionInitialized)
                 => \/ ScenePos(scene') = ScenePos(scene)
                    \/ \E delta \in LongDeltas, ptr \in Points :
                          ScenePos(scene') = MovedPos(scene.localX, scene.localY,
                              scene.localMass, scene.localRadius, delta, ptr)
           /\ (scene.serverPositionInitialized /\ ~scene'.serverPositionInitialized)
                 => ~scene.isEaten /\ scene'.isEaten
           /\ (~scene.serverPositionInitialized /\ HasLocalRow)
                 => \A delta \in LongDeltas, ptr \in Points :
                       LET r == FrameResult(delta, ptr).scene
                       IN  \/ r.isEaten
                           \/ r.serverPositionInitialized /\ ScenePos(r) = LocalRowPos
      ]_vars

\* The scene has snapped to the cached row and has pushed that position.
C9_SnappedToRow ==
    /\ scene.up /\ scene.serverPositionInitialized /\ ~scene.isEaten
    /\ HasLocalRow
    /\ ScenePos(scene) = LocalRowPos
    /\ inflight.spawnPlayer[generation] = 0
    /\ scene.sincePos = 0

\* C10: with serverPositionInitialized set, syncFromServer returns the scene
\* with localX and localY as it was given them, for the scene as it stands and
\* for the scene as any prediction step leaves it, whatever the cached row says.
C10_SyncKeepsPosition ==
    (scene.up /\ scene.serverPositionInitialized)
    => /\ ScenePos(syncFromServer(scene)) = ScenePos(scene)
       /\ \A delta \in LongDeltas, ptr \in Points :
             LET moved == movePlayerTowardMouse(scene, delta, ptr)
             IN  ScenePos(syncFromServer(moved)) = ScenePos(moved)

\* The scene has snapped and the cached row of the local player is elsewhere.
C10_RowElsewhere ==
    /\ scene.up /\ scene.serverPositionInitialized /\ ~scene.isEaten
    /\ HasLocalRow
    /\ ScenePos(scene) # LocalRowPos

\* The scene predicts normally: not consumed, snapped, its row cached.
Alive ==
    /\ scene.up /\ ~scene.isEaten /\ scene.serverPositionInitialized
    /\ HasLocalRow

\* The local player's row has been deleted on the open connection: the
\* subscription is applied, no spawn call is unsettled, and no row is cached.
LocalRowGone ==
    /\ generation \in Gens /\ connPhase[generation] = "subscribed"
    /\ conn = generation /\ localIdentityHex = LOCAL_ID
    /\ inflight.spawnPlayer[generation] = 0
    /\ LOCAL_ID \notin DOMAIN playerMap

\* C8 as stated: whenever the local row is deleted while the connection is
\* live, the client comes back to normal prediction.
C8_DeletedLeadsToAlive == LocalRowGone ~> Alive

\* The part of C8 that starts from the consumed state: a consumed scene
\* respawns and predicts again.
C8_ConsumedLeadsToAlive == (scene.up /\ scene.isEaten) ~> Alive

\* The row was deleted before the scene registered its eaten callback: the
\* scene is up, never consumed, and no timer is running.
C8_DiedBeforeScene ==
    /\ LocalRowGone
    /\ scene.up /\ ~scene.isEaten /\ scene.respawnIn = NO_TIMER

\* The sum of the masses of all stored players.
TotalMass(st) == SumOver([who \in DOMAIN st.players |-> st.players[who].mass],
                         DOMAIN st.players)
storeTables == <<sPlayers, sFood, sEjected, sCells>>
\* The step runs the submitted call c.
Runs(c) == c \in sCalls /\ sCalls' = sCalls \ {c}

\* C4: (1) no pellet id is ever consumed twice; (2) when two clients' eatFood
\* calls for one pellet are both submitted and each requester overlaps the
\* pellet, then in either order the first removes the pellet and adds one
\* pellet value to its requester, the second changes nothing, and the total
\* mass has grown by one pellet value; (3) every eatFood transaction raises
\* the total mass by one pellet value or leaves every table as it was.
C4_ConcurrentEatFoodOnce ==
    [][ /\ \A id \in DOMAIN sEatLog' : sEatLog'[id].won <= 1
        /\ \A c1 \in sCalls, c2 \in sCalls :
              ( /\ c1.op = "eatFood" /\ c2.op = "eatFood"
                /\ c1.id = c2.id /\ c1.who # c2.who
                /\ EatFoodApplies(StoreNow, c1.who, c1.id)
                /\ EatFoodApplies(StoreNow, c2.who, c2.id) )
              => LET one == Reduce(StoreNow, c1)
                     both == Reduce(one, c2)
                 IN  /\ c1.id \notin DOMAIN one.food
                     /\ one.players[c1.who].mass = sPlayers[c1.who].mass + FOOD_VALUE
                     /\ both = one
                     /\ both.players[c2.who].mass = sPlayers[c2.who].mass
                     /\ TotalMass(both) = TotalMass(StoreNow) + FOOD_VALUE
                     /\ Cardinality(DOMAIN both.food) = Cardinality(DOMAIN sFood)
        /\ \A c \in sCalls :
              (c.op = "eatFood" /\ Runs(c))
              => \/ /\ c.id \in DOMAIN sFood /\ c.id \notin DOMAIN sFood'
                    /\ sPlayers' = [sPlayers EXCEPT ![c.who].mass = @ + FOOD_VALUE]
                 \/ UNCHANGED <<storeTables, sNext>>
      ]_vars

\* Both clients' eatFood calls for pellet 1 have run: one won, one lost.
C4_OneWonOneLost ==
    /\ 1 \in DOMAIN sEatLog
    /\ sEatLog[1].won = 1 /\ sEatLog[1].lost = 1
    /\ 1 \notin DOMAIN sFood
    /\ \E who \in DOMAIN sPlayers : sPlayers[who].mass = INITIAL_MASS + FOOD_VALUE

\* C5: an eatPlayer(a, b) transaction deletes b's row and adds b's mass to a
\* exactly when both rows exist, a is not b, mass(a) >= 1.1 * mass(b) and the
\* distance between the centres is less than radius(a); in every other case
\* no table changes.
C5_EatPlayerIff ==
    [][ \A c \in sCalls :
          (c.op = "eatPlayer" /\ Runs(c))
          => LET a == c.who
                 b == c.target
                 ok == /\ a \in DOMAIN sPlayers /\ b \in DOMAIN sPlayers /\ a # b
                       /\ 10 * sPlayers[a].mass >= 11 * sPlayers[b].mass
                       /\ Dist2(sPlayers[a].x, sPlayers[a].y, sPlayers[b].x, sPlayers[b].y)
                            < massToRadius(sPlayers[a].mass) * massToRadius(sPlayers[a].mass)
             IN  IF ok
                 THEN /\ b \notin DOMAIN sPlayers'
                      /\ DOMAIN sPlayers' = DOMAIN sPlayers \ {b}
                      /\ sPlayers'[a] = [sPlayers[a] EXCEPT
                                            !.mass = @ + sPlayers[b].mass]
                      /\ \A o \in DOMAIN sPlayers' \ {a} : sPlayers'[o] = sPlayers[o]
                      /\ UNCHANGED <<sFood, sEjected>>
                 ELSE UNCHANGED <<storeTables, sNext>>
      ]_vars

\* A player holds the mass of another it has consumed, and the other is gone.
C5_Consumed ==
    \E a \in DOMAIN sPlayers :
        /\ sPlayers[a].mass >= 2 * INITIAL_MASS
        /\ \E b \in Idents : b \notin DOMAIN sPlayers

\* C6: every player owns at most one PlayerCell; a splitCell transaction of
\* a player that owns one changes nothing; an accepted splitCell leaves the
\* player with exactly one; and the cell of a player that stays in the Store
\* disappears only by the merge timer.
C6_AtMostOneCell ==
    [][ \A who \in Idents :
          /\ Cardinality(CellsOf(StoreNow, who)) <= 1
          /\ Cardinality({c \in DOMAIN sCells' : sCells'[c].owner = who}) <= 1
          /\ \A c \in sCalls :
                (c.op = "splitCell" /\ c.who = who /\ Runs(c))
                => IF CellsOf(StoreNow, who) # {}
                   THEN UNCHANGED <<storeTables, sNext>>
                   ELSE IF who \in DOMAIN sPlayers /\ sPlayers[who].mass >= SPLIT_MIN_MASS
                   THEN /\ Cardinality({k \in DOMAIN sCells' : sCells'[k].owner = who}) = 1
                        /\ sNext.cell \in DOMAIN sCells'
                   ELSE UNCHANGED <<storeTables, sNext>>
          /\ \A k \in CellsOf(StoreNow, who) :
                (who \in DOMAIN sPlayers /\ who \in DOMAIN sPlayers' /\ k \notin DOMAIN sCells')
                => /\ sCalls' = sCalls
                   /\ sPlayers' = mergeCell(StoreNow, k).players
                   /\ sCells' = MapDelete(sCells, k)
      ]_vars

\* A player owns a cell and has a further splitCell call submitted.
C6_SplitWhileSplit ==
    \E who \in DOMAIN sPlayers :
        /\ Cardinality(CellsOf(StoreNow, who)) = 1
        /\ \E c \in sCalls : c.op = "splitCell" /\ c.who = who

\* update() gets past its isEaten test in a frame of the given length.
UpdateRuns(delta) ==
    LET s0 == AdvanceClocks(scene, delta)
    IN  scene.up /\ ~(IF s0.respawnIn = 0 THEN doRespawn(s0) ELSE s0).isEaten

\* C11 as stated: every frame whose update() runs with the local player's row
\* cached leaves localMass, localRadius, the fill colour and the name text
\* equal to the row's mass, the radius of that mass, its color and its name.
C11_RowValuesShown ==
    (scene.up /\ HasLocalRow)
    => \A delta \in LongDeltas, ptr \in Points :
          (UpdateRuns(delta) /\ Room(FrameResult(delta, ptr).inflight))
          => LET r == FrameResult(delta, ptr).scene
                 row == playerMap[localIdentityHex]
             IN  /\ r.localMass = row.mass
                 /\ r.localRadius = massToRadius(row.mass)
                 /\ r.fillColor = row.color
                 /\ r.nameText = row.name

\* The part of C11 about mass, radius and colour.
C11_MassAndColorFollowRow ==
    (scene.up /\ HasLocalRow)
    => \A delta \in LongDeltas, ptr \in Points :
          (UpdateRuns(delta) /\ Room(FrameResult(delta, ptr).inflight))
          => LET r == FrameResult(delta, ptr).scene
                 row == playerMap[localIdentityHex]
             IN  /\ r.localMass = row.mass
                 /\ r.localRadius = massToRadius(row.mass)
                 /\ r.fillColor = row.color

\* A frame has reconciled with the restyled row (the circle has its colour and
\* mass) and the name text still shows the name the page was opened with.
C11_NameNotFollowed ==
    /\ scene.up /\ ~scene.isEaten /\ HasLocalRow
    /\ playerMap[localIdentityHex] \in RestyledRows
    /\ scene.fillColor = playerMap[localIdentityHex].color
    /\ scene.localMass = playerMap[localIdentityHex].mass
    /\ scene.nameText # playerMap[localIdentityHex].name

\* The current connection has failed: it was closed by a disconnect or by a
\* handshake error, and no new connection has been built.
ConnectionFailed == generation \in Gens /\ connPhase[generation] = "closed"

\* C12 as stated: once the current connection has failed, the four replica
\* caches are empty and the local identity is null, and neither a frame nor a
\* key press dispatches a position push, an eat, an eject or a split.
C12_FailureResetsAndHalts ==
    ConnectionFailed
    => /\ playerMap = EmptyMap /\ foodMap = EmptyMap
       /\ ejectedMassMap = EmptyMap /\ playerCellMap = EmptyMap
       /\ localIdentityHex = NULL_ID
       /\ scene.up
            => \A delta \in Deltas, ptr \in Points :
                  LET r == FrameResult(delta, ptr)
                  IN  /\ r.pushes = {}
                      /\ r.inflight.eatFood = inflight.eatFood
                      /\ r.inflight.eatEjectedMass = inflight.eatEjectedMass
                      /\ r.inflight.eatPlayer = inflight.eatPlayer
                      /\ ~EjectSends(scene, ptr) /\ ~SplitSends(scene, ptr)

\* The current connection was closed after its sync: the identity is null,
\* the caches still hold the rows, and the next frame sends eatFood and
\* updatePosition on the closed connection.
C12_DispatchAfterDisconnect ==
    /\ ConnectionFailed /\ scene.up
    /\ localIdentityHex = NULL_ID /\ conn = generation
    /\ LOCAL_ID \in DOMAIN playerMap
    /\ \E id \in FoodIds, delta \in Deltas :
          LET r == FrameResult(delta, NearPoint)
          IN  /\ id \in DOMAIN foodMap
              /\ r.inflight.eatFood[<<id, conn>>] = inflight.eatFood[<<id, conn>>] + 1
              /\ r.pushes # {}

\* The collision conditions of the three checks, for one target, in scene s.
OverlapsFood(s, id) ==
    /\ id \in DOMAIN foodMap
    /\ Dist2(foodMap[id].x, foodMap[id].y, s.localX, s.localY)
         < (s.localRadius + FOOD_RADIUS) * (s.localRadius + FOOD_RADIUS)
OverlapsEjected(s, id) ==
    /\ id \in DOMAIN ejectedMassMap
    /\ Dist2(ejectedMassMap[id].x, ejectedMassMap[id].y, s.localX, s.localY)
         < (s.localRadius + ejectedMassMap[id].radius)
           * (s.localRadius + ejectedMassMap[id].radius)
OverlapsPlayer(s, id) ==
    /\ id \in DOMAIN playerMap /\ id # LOCAL_ID
    /\ BigEnough(s.localMass, playerMap[id].mass)
    /\ Dist2(playerMap[id].x, playerMap[id].y, s.localX, s.localY)
         < s.localRadius * s.localRadius

\* The scene as the collision checks of a frame find it.
AtChecks(delta, ptr) == UpdateBody(AdvanceClocks(scene, delta), delta, ptr)
\* The next frame sends the eat call for a target that is not pending and
\* meets the collision condition when the checks run.
RetriesFood(id) ==
    \A delta \in Deltas :
      \A r \in {FrameResult(delta, NearPoint)}, s2 \in {AtChecks(delta, NearPoint)} :
        (scene.up /\ UpdateRuns(delta) /\ Room(r.inflight)
            /\ id \notin pendingFoodEats /\ OverlapsFood(s2, id))
        => r.inflight.eatFood[<<id, conn>>] = inflight.eatFood[<<id, conn>>] + 1
RetriesEjected(id) ==
    \A delta \in Deltas :
      \A r \in {FrameResult(delta, NearPoint)}, s2 \in {AtChecks(delta, NearPoint)} :
        (scene.up /\ UpdateRuns(delta) /\ Room(r.inflight)
            /\ id \notin pendingEjectedMassEats /\ OverlapsEjected(s2, id))
        => r.inflight.eatEjectedMass[<<id, conn>>]
              = inflight.eatEjectedMass[<<id, conn>>] + 1
RetriesPlayer(id) ==
    \A delta \in Deltas :
      \A r \in {FrameResult(delta, NearPoint)}, s2 \in {AtChecks(delta, NearPoint)} :
        (scene.up /\ UpdateRuns(delta) /\ Room(r.inflight)
            /\ id \notin scene.pendingPlayerEats /\ OverlapsPlayer(s2, id))
        => r.inflight.eatPlayer[<<id, conn>>] = inflight.eatPlayer[<<id, conn>>] + 1

C14_EatPlayerOnlyWhenBigAndNear ==
    [][ \A id \in Idents, g \in Gens :
          (id \in RemoteIds /\ inflight'.eatPlayer[<<id, g>>] > inflight.eatPlayer[<<id, g>>])
          => /\ g = conn
             /\ id # localIdentityHex /\ id \in DOMAIN playerMap
             /\ 10 * scene'.localMass >= 11 * playerMap[id].mass
             /\ Dist2(playerMap[id].x, playerMap[id].y, scene'.localX, scene'.localY)
                  < scene'.localRadius * scene'.localRadius
      ]_vars

\* An eatPlayer call for a smaller player under the local circle is unsettled
\* and the target is pending.
C14_PreyCallSent ==
    \E id \in RemoteIds :
        /\ scene.up /\ conn = generation
        /\ inflight.eatPlayer[<<id, conn>>] = 1
        /\ id \in scene.pendingPlayerEats
        /\ OverlapsPlayer(scene, id)
        /\ playerMap[id].mass = INITIAL_MASS

\* The row's centre is at least its radius away from every wall.
WithinWorld(row) ==
    /\ massToRadius(row.mass) <= row.x /\ row.x <= WORLD_SIZE - massToRadius(row.mass)
    /\ massToRadius(row.mass) <= row.y /\ row.y <= WORLD_SIZE - massToRadius(row.mass)

\* C15: under spawns and position updates with any coordinates, every stored
\* player stays within the world shrunk by its radius; a position update moves
\* only its caller's row; and one from an identity the Store does not know
\* changes no table.
C15_PositionsStayInWorld ==
    [][ /\ \A who \in DOMAIN sPlayers' : WithinWorld(sPlayers'[who])
        /\ \A c \in sCalls :
              (c.op = "updatePosition" /\ Runs(c))
              => /\ c.who \notin DOMAIN sPlayers => UNCHANGED <<storeTables, sNext>>
                 /\ DOMAIN sPlayers' = DOMAIN sPlayers
                 /\ \A who \in DOMAIN sPlayers \ {c.who} : sPlayers'[who] = sPlayers[who]
                 /\ UNCHANGED <<sFood, sEjected, sCells>>
      ]_vars

\* A player stands against the far wall, where only a clamped update puts it,
\* and the other identity is unknown to the Store.
C15_ClampedAtWall ==
    \E who \in DOMAIN sPlayers :
        /\ sPlayers[who].x = WORLD_SIZE - massToRadius(sPlayers[who].mass)
        /\ sPlayers[who].y = massToRadius(sPlayers[who].mass)
        /\ \E other \in Idents : other \notin DOMAIN sPlayers

\* C16: in every state of the Store the mass of every player and of every
\* PlayerCell is at least the mass floor.
C16_MassAtLeastFloor ==
    /\ \A who \in DOMAIN sPlayers : sPlayers[who].mass >= MASS_FLOOR
    /\ \A c \in DOMAIN sCells : sCells[c].mass >= MASS_FLOOR

\* One player has split down to the floor, its cell is at the floor too, and
\* another has ejected a blob.
C16_AtTheFloor ==
    \E a \in DOMAIN sPlayers, b \in DOMAIN sPlayers :
        /\ a # b
        /\ sPlayers[a].mass = MASS_FLOOR
        /\ \E c \in CellsOf(StoreNow, a) : sCells[c].mass = MASS_FLOOR
        /\ sPlayers[b].mass = INITIAL_MASS - EJECT_COST
        /\ \E e \in DOMAIN sEjected : sEjected[e].owner = b

\* C17: an eatFood transaction that removes its pellet adds exactly the pellet
\* value to the requester's mass and to no one else's, and puts one new pellet
\* on the map under an id that was never on it before, so that the number of
\* pellets is what it was.
C17_EatFoodReplacesPellet ==
    [][ \A c \in sCalls :
          ( /\ c.op = "eatFood" /\ Runs(c)
            /\ c.id \in DOMAIN sFood /\ c.id \notin DOMAIN sFood' )
          => /\ c.who \in DOMAIN sPlayers
             /\ sPlayers' = [sPlayers EXCEPT ![c.who].mass = @ + FOOD_VALUE]
             /\ Cardinality(DOMAIN sFood') = Cardinality(DOMAIN sFood)
             /\ \E new \in DOMAIN sFood' :
                   /\ DOMAIN sFood' = (DOMAIN sFood \ {c.id}) \cup {new}
                   /\ new \notin DOMAIN sFood
                   /\ new \notin DOMAIN sEatLog'
                   /\ new >= sNext.food /\ sNext'.food > new
             /\ \A id \in DOMAIN sFood \ {c.id} : sFood'[id] = sFood[id]
      ]_vars

\* One player has eaten the first pellet, unopposed: it has the initial mass
\* plus the pellet value, and pellet 2 has taken the place of pellet 1.
C17_FirstPelletEaten ==
    /\ DOMAIN sFood = {2}
    /\ 1 \in DOMAIN sEatLog /\ sEatLog[1].won = 1 /\ sEatLog[1].lost = 0
    /\ \E who \in DOMAIN sPlayers :
          /\ sPlayers[who].mass = INITIAL_MASS + FOOD_VALUE
          /\ \A other \in DOMAIN sPlayers \ {who} : sPlayers[other].mass = INITIAL_MASS

\* The requests C18 lists, judged on the tables as the call finds them.
Invalid(c) ==
    LET has(who) == who \in DOMAIN sPlayers
    IN  CASE c.op = "eatFood" -> c.id \notin DOMAIN sFood
          [] c.op = "eatEjectedMass" -> c.id \notin DOMAIN sEjected
          [] c.op = "eatPlayer" ->
                \/ ~has(c.who) \/ ~has(c.target)
                \/ 10 * sPlayers[c.who].mass < 11 * sPlayers[c.target].mass
                \/ ~(Dist2(sPlayers[c.target].x, sPlayers[c.target].y,
                           sPlayers[c.who].x, sPlayers[c.who].y)
                        < massToRadius(sPlayers[c.who].mass)
                          * massToRadius(sPlayers[c.who].mass))
          [] c.op = "ejectMass" -> ~has(c.who) \/ sPlayers[c.who].mass < EJECT_MIN_MASS
          [] c.op = "splitCell" ->
                \/ ~has(c.who) \/ sPlayers[c.who].mass < SPLIT_MIN_MASS
                \/ \E cell \in DOMAIN sCells : sCells[cell].owner = c.who
          [] c.op = "updateCellPosition" ->
                c.id \notin DOMAIN sCells \/ sCells[c.id].owner # c.who
          [] OTHER -> FALSE

\* C18: a transaction that runs one of these requests changes no table and
\* uses up no id; the call is taken off the queue like any other.
C18_InvalidRequestsChangeNothing ==
    [][ \A c \in sCalls :
          (Runs(c) /\ Invalid(c)) => UNCHANGED <<storeTables, sNext>>
      ]_vars

\* The Store has run one spawn and at least two other calls, and holds one
\* player at its initial mass and nothing else: the other calls changed
\* nothing.
C18_OnlyTheSpawnTook ==
    /\ sCalls = {} /\ sNext.submitted >= 3 /\ sNext.spawns = 1
    /\ \E who \in Idents :
          /\ DOMAIN sPlayers = {who}
          /\ sPlayers[who].mass = INITIAL_MASS
          /\ <<sPlayers[who].x, sPlayers[who].y>> \in Points
    /\ sFood = EmptyMap /\ sEjected = EmptyMap /\ sCells = EmptyMap
    /\ sNext.ejected = 1 /\ sNext.cell = 1 /\ sNext.food = 1

\* C19: a despawn transaction leaves neither the Player row of its identity
\* nor a PlayerCell owned by it, and in every state of the Store each
\* PlayerCell is owned by an identity that has a Player row.
C19_DespawnLeavesNoRowOrCell ==
    /\ [][ \A c \in sCalls :
              (Runs(c) /\ c.op = "despawn") =>
                  /\ c.who \notin DOMAIN sPlayers'
                  /\ \A cell \in DOMAIN sCells' : sCells'[cell].owner # c.who
          ]_vars
    /\ [](\A cell \in DOMAIN sCells : sCells[cell].owner \in DOMAIN sPlayers)

\* The one player that spawned has split and has been despawned: the Store
\* holds no player and no cell.
C19_SplitPlayerDespawned ==
    /\ sNext.spawns = 1 /\ sNext.cell = 2
    /\ sPlayers = EmptyMap /\ sCells = EmptyMap

\* C20: while isEaten is set, (1) a frame in which the respawn timer does not
\* fire sends no position call and no eat call, leaves the pending sets as
\* they are and leaves the local position where it was, and (2) a press of W
\* or of space sends no call and changes nothing in the scene.
C20_ConsumedFreezesInput ==
    [][ (scene.up /\ scene.isEaten) =>
          /\ \A delta \in LongDeltas, ptr \in Points :
                (Frame(delta, ptr) /\ AdvanceClocks(scene, delta).respawnIn # 0)
                => /\ FrameResult(delta, ptr).pushes = {}
                   /\ inflight' = inflight
                   /\ pendingFoodEats' = pendingFoodEats
                   /\ pendingEjectedMassEats' = pendingEjectedMassEats
                   /\ scene'.pendingPlayerEats = scene.pendingPlayerEats
                   /\ ScenePos(scene') = ScenePos(scene)
                   /\ scene'.isEaten
          /\ KeyPressed => (inflight' = inflight /\ scene' = scene)
      ]_vars

\* The consumed client has run a frame with the connection open, both keys
\* past their cooldowns, a pellet and a smaller player under its circle, and
\* no call is unsettled and no target pending.
C20_FrozenAmongTargets ==
    /\ scene.up /\ scene.isEaten
    /\ scene.respawnIn # NO_TIMER /\ scene.respawnIn < RESPAWN_DELAY_MS
    /\ conn # NULL_CONN /\ localIdentityHex # NULL_ID
    /\ ~(scene.sinceEject < EJECT_COOLDOWN_MS) /\ ~(scene.sinceSplit < SPLIT_COOLDOWN_MS)
    /\ \E id \in DOMAIN foodMap : OverlapsFood(scene, id)
    /\ \E id \in DOMAIN playerMap :
          /\ id # LOCAL_ID
          /\ Dist2(playerMap[id].x, playerMap[id].y, scene.localX, scene.localY)
                < scene.localRadius * scene.localRadius
    /\ InflightTotal(inflight) = 0
    /\ pendingFoodEats = {} /\ scene.pendingPlayerEats = {}

\* The position init() gives the local player.
DefaultPos == <<WORLD_SIZE \div 2, WORLD_SIZE \div 2>>

\* The step takes the scene from alive to consumed.
BecomesConsumed == scene.up /\ ~scene.isEaten /\ scene'.up /\ scene'.isEaten

\* C21 as stated: the step that makes the client consumed leaves the predicted
\* position at the default position, the mass and the radius at their initial
\* values, the snap flag clear, no launch and no merge running, no split cell
\* id and no pending split direction.
C21_ConsumedResetsAll ==
    [][ BecomesConsumed =>
          /\ ScenePos(scene') = DefaultPos
          /\ scene'.localMass = INITIAL_MASS
          /\ scene'.localRadius = massToRadius(INITIAL_MASS)
          /\ ~scene'.serverPositionInitialized
          /\ ~scene'.splitLaunching /\ ~scene'.splitMerging
          /\ scene'.splitCellId = NO_CELL /\ scene'.pendingSplitDir = NoDir
      ]_vars

\* The part of C21 that leaves the position out: everything else is reset,
\* and the position is the one the player had.
C21_ResetKeepsPosition ==
    [][ BecomesConsumed =>
          /\ ScenePos(scene') = ScenePos(scene)
          /\ scene'.localMass = INITIAL_MASS
          /\ scene'.localRadius = massToRadius(INITIAL_MASS)
          /\ ~scene'.serverPositionInitialized
          /\ ~scene'.splitLaunching /\ ~scene'.splitMerging
          /\ scene'.splitCellId = NO_CELL /\ scene'.pendingSplitDir = NoDir
      ]_vars

\* The consumed client's predicted position is not the default position.
C21_ConsumedAwayFromDefault ==
    /\ scene.up /\ scene.isEaten /\ scene.respawnIn = RESPAWN_DELAY_MS
    /\ ScenePos(scene) # DefaultPos
    /\ ~scene.serverPositionInitialized /\ scene.localMass = INITIAL_MASS

\* The step dispatches an ejectMass (a splitCell) call.
EjectDispatched == \E g \in Gens : inflight'.ejectMass[g] > inflight.ejectMass[g]
SplitDispatched == \E g \in Gens : inflight'.splitCell[g] > inflight.splitCell[g]

\* C22: within a scene, (1) an ejectMass call is dispatched only when at least
\* EJECT_COOLDOWN_MS have passed since the last press that passed the eject
\* cooldown, and it restarts that clock; (2) the same for splitCell and
\* SPLIT_COOLDOWN_MS; (3) the two clocks grow only with the frames' time,
\* both by the same frame; (4) an eject leaves the split clock, and whether a
\* split press would send, as they were, and a split does so for the eject.
C22_CooldownsApartAndIndependent ==
    [][ (scene.up /\ scene'.up /\ scene'.gen = scene.gen) =>
          /\ EjectDispatched =>
                /\ ~(scene.sinceEject < EJECT_COOLDOWN_MS)
                /\ scene'.sinceEject = 0
                /\ scene'.sinceSplit = scene.sinceSplit
                /\ \A ptr \in Points : SplitSends(scene', ptr) <=> SplitSends(scene, ptr)
          /\ SplitDispatched =>
                /\ ~(scene.sinceSplit < SPLIT_COOLDOWN_MS)
                /\ scene'.sinceSplit = 0
                /\ scene'.sinceEject = scene.sinceEject
                /\ \A ptr \in Points : EjectSends(scene', ptr) <=> EjectSends(scene, ptr)
          /\ (scene'.sinceEject > scene.sinceEject \/ scene'.sinceSplit > scene.sinceSplit)
                => \E delta \in KeyDeltas :
                      /\ scene'.sinceEject = Min(scene.sinceEject + delta, EJECT_COOLDOWN_MS)
                      /\ scene'.sinceSplit = Min(scene.sinceSplit + delta, SPLIT_COOLDOWN_MS)
                      /\ inflight'.ejectMass = inflight.ejectMass
                      /\ inflight'.splitCell = inflight.splitCell
      ]_vars

\* An eject and a split have been sent between the same two frames: both
\* calls are unsettled and both clocks have just restarted.
C22_EjectAndSplitTogether ==
    /\ scene.up /\ conn # NULL_CONN
    /\ inflight.ejectMass[conn] = 1 /\ inflight.splitCell[conn] = 1
    /\ scene.sinceEject = 0 /\ scene.sinceSplit = 0

\* C23: (1) a step that dispatches eatEjectedMass for a pellet ends with the
\* pellet not in ejectedAnimating, so that a pellet in transit when the
\* collision check runs is never asked for, overlapping or not; (2) within a
\* scene an id leaves ejectedAnimating only in a frame that completes its
\* tween or finds its row gone, or in the step that makes the player
\* consumed.
C23_NoEatInTransit ==
    [][ (scene.up /\ scene'.up /\ scene'.gen = scene.gen) =>
          \A id \in EjectIds :
             /\ (\E g \in Gens : inflight'.eatEjectedMass[<<id, g>>]
                                    > inflight.eatEjectedMass[<<id, g>>])
                   => id \notin DOMAIN scene'.ejectedAnimating
             /\ (id \in DOMAIN scene.ejectedAnimating
                 /\ id \notin DOMAIN scene'.ejectedAnimating)
                   => \/ BecomesConsumed
                      \/ \E delta \in KeyDeltas, ptr \in Points :
                            /\ Frame(delta, ptr)
                            /\ \/ ~(scene.ejectedAnimating[id] + delta < EJECT_TWEEN_MS)
                               \/ id \notin DOMAIN ejectedMassMap
      ]_vars

\* A pellet has been in transit for a frame with its Store circle over the
\* local circle and the connection open: it is not pending and no call for it
\* is unsettled.
C23_InTransitOverPlayer ==
    /\ scene.up /\ ~scene.isEaten /\ conn # NULL_CONN
    /\ \E id \in DOMAIN scene.ejectedAnimating :
          /\ scene.ejectedAnimating[id] > 0
          /\ OverlapsEjected(scene, id)
          /\ id \notin pendingEjectedMassEats
          /\ \A g \in Gens : inflight.eatEjectedMass[<<id, g>>] = 0

\* C24: in every state where update() would run with the local row cached and
\* a PlayerCell of the local player whose id is not the tracked one, a frame
\* ends with that id tracked and no merge running, and (1) if a pending split
\* direction was recorded, with the launch running, the secondary cell at the
\* primary cell's predicted position, the launch velocity along the recorded
\* direction and the direction consumed; (2) if none was recorded, with no
\* launch, no velocity and the secondary cell at the Store's position of the
\* cell.
C24_NewCellLaunchesOrSnaps ==
    (scene.up /\ HasLocalRow /\ LocalCellId # NO_CELL /\ LocalCellId # scene.splitCellId)
    => \A delta \in SplitDeltas, ptr \in Points :
          UpdateRuns(delta) =>
            \A after \in {FrameResult(delta, ptr).scene} :
               /\ after.splitCellId = LocalCellId /\ ~after.splitMerging
               /\ after.pendingSplitDir = NoDir
               /\ scene.pendingSplitDir # NoDir =>
                     /\ after.splitLaunching
                     /\ <<after.splitClientX, after.splitClientY>> = ScenePos(after)
                     /\ after.splitLaunchVx
                          = MulDiv(scene.pendingSplitDir[1], SPLIT_LAUNCH_SPEED, 1000)
                     /\ after.splitLaunchVy
                          = MulDiv(scene.pendingSplitDir[2], SPLIT_LAUNCH_SPEED, 1000)
               /\ scene.pendingSplitDir = NoDir =>
                     /\ ~after.splitLaunching
                     /\ after.splitLaunchVx = 0 /\ after.splitLaunchVy = 0
                     /\ after.splitClientX = playerCellMap[LocalCellId].x
                     /\ after.splitClientY = playerCellMap[LocalCellId].y

\* The launch of a new cell has just begun: the secondary cell is on the
\* primary cell, moving, and the pending direction is consumed.
C24_LaunchBegun ==
    /\ scene.up /\ scene.splitLaunching
    /\ scene.splitCellId \in DOMAIN playerCellMap
    /\ <<scene.splitClientX, scene.splitClientY>> = ScenePos(scene)
    /\ scene.splitLaunchVx = SPLIT_LAUNCH_SPEED
    /\ scene.pendingSplitDir = NoDir

\* The merge test of one frame: the secondary cell is within MERGE_EPSILON of
\* the primary cell, or the merge has run for more than MERGE_TIMEOUT_MS.
MergeDone(s) ==
    \/ Dist2(s.localX, s.localY, s.splitClientX, s.splitClientY)
          < MERGE_EPSILON * MERGE_EPSILON
    \/ s.splitMergeElapsed > MERGE_TIMEOUT_MS

\* C25: (1) a merge that is running has run for at most MERGE_TIMEOUT_MS of
\* frame time; (2) a frame whose update() runs during a merge adds its delta
\* to the merge's time, and ends the merge if the cells are then closer than
\* MERGE_EPSILON or the time is over the ceiling, and otherwise leaves it
\* running unless a new cell appeared; (3) with frames running, every merge
\* ends.
C25_MergeEnds ==
    /\ [](scene.splitMerging => scene.splitMergeElapsed <= MERGE_TIMEOUT_MS)
    /\ [][ \A delta \in KeyDeltas, ptr \in MergePoints :
              (scene.up /\ scene.splitMerging /\ UpdateRuns(delta) /\ Frame(delta, ptr))
              => /\ scene'.splitMergeElapsed
                      = Min(scene.splitMergeElapsed + delta, MERGE_TIMEOUT_MS + 1)
                 /\ MergeDone(scene') => ~scene'.splitMerging
                 /\ ~MergeDone(scene') =>
                        (scene'.splitMerging \/ scene'.splitCellId # NO_CELL)
          ]_vars
    /\ (scene.splitMerging ~> ~scene.splitMerging)

\* A merge has ended on the ceiling: it is over, its time is past
\* MERGE_TIMEOUT_MS and the cells are still apart.
C25_EndedOnCeiling ==
    /\ scene.up /\ ~scene.splitMerging /\ ~scene.isEaten
    /\ scene.splitMergeElapsed > MERGE_TIMEOUT_MS
    /\ ~(Dist2(scene.localX, scene.localY, scene.splitClientX, scene.splitClientY)
           < MERGE_EPSILON * MERGE_EPSILON)

\* C26 as stated: a step that delivers again the insert of a cached row, with
\* the same row, leaves the replica caches and the pending sets as they were.
C26_RedeliveryChangesNothing ==
    [][ InsertRedelivered =>
          UNCHANGED <<cacheVars, pendingFoodEats, pendingEjectedMassEats, scene>>
      ]_vars

\* The part of C26 that holds: the caches are left as they were by any
\* redelivered insert, and the pending sets by one of a player, a blob or a
\* cell.
C26_CachesUnchanged ==
    [][ /\ InsertRedelivered => UNCHANGED <<cacheVars, scene>>
        /\ (PlayerRedelivered \/ EjectedRedelivered \/ CellRedelivered)
              => UNCHANGED <<pendingFoodEats, pendingEjectedMassEats>>
      ]_vars

\* An eatFood call for a cached pellet is unsettled and the pellet is not
\* pending.
C26_PendingLostToRedelivery ==
    \E id \in DOMAIN foodMap :
        /\ conn # NULL_CONN
        /\ inflight.eatFood[<<id, conn>>] > 0
        /\ id \notin pendingFoodEats

\* Maps m and n differ at one key at most.
OneEntryApart(m, n) ==
    \E k \in DOMAIN m \cup DOMAIN n :
        \A j \in (DOMAIN m \cup DOMAIN n) \ {k} :
            j \in DOMAIN m /\ j \in DOMAIN n /\ m[j] = n[j]

\* The step is a row event handled for the current connection: that
\* connection is open and stays current, and one entry of one cache changes.
RowEventApplied ==
    /\ Cur /\ generation' = generation
    /\ \/ OneEntryApart(playerMap, playerMap')
             /\ UNCHANGED <<foodMap, ejectedMassMap, playerCellMap>>
       \/ OneEntryApart(foodMap, foodMap')
             /\ UNCHANGED <<playerMap, ejectedMassMap, playerCellMap>>
       \/ OneEntryApart(ejectedMassMap, ejectedMassMap')
             /\ UNCHANGED <<playerMap, foodMap, playerCellMap>>
       \/ OneEntryApart(playerCellMap, playerCellMap')
             /\ UNCHANGED <<playerMap, foodMap, ejectedMassMap>>

\* The step is cleanupSpacetimeDB: the connection is dropped, the generation
\* moves on and every cache is emptied.
CleanupRan ==
    /\ generation' = generation + 1 /\ conn' = NULL_CONN
    /\ playerMap' = EmptyMap /\ foodMap' = EmptyMap
    /\ ejectedMassMap' = EmptyMap /\ playerCellMap' = EmptyMap

\* C27: (1) a step that changes a replica cache is a row event of the current
\* connection or the cleanup; (2) no frame and no settled call changes a
\* cache: a step that changes the scene, a pending set or the set of
\* unsettled calls without being a row event or the cleanup leaves all four
\* caches as they were.
C27_CachesWrittenByChannelOnly ==
    [][ /\ cacheVars' # cacheVars => (RowEventApplied \/ CleanupRan)
        /\ \A delta \in Deltas, ptr \in {NearPoint} :
              (scene.up /\ <<scene, inflight>>' # <<scene, inflight>> /\ Frame(delta, ptr))
              => UNCHANGED cacheVars
        /\ (FoodEatSettled \/ EjectedEatSettled \/ PlayerEatSettled)
              => UNCHANGED cacheVars
      ]_vars

\* A superseded connection is still open beside the current one, whose rows
\* are cached, and a frame has dispatched a call for one of them.
C27_TwoConnectionsOpen ==
    /\ Cur /\ conn = generation
    /\ \E g \in Gens : g # generation /\ CanDeliver(g)
    /\ \E id \in DOMAIN foodMap : inflight.eatFood[<<id, conn>>] > 0
    /\ HasLocalRow

\* The position lies in the world shrunk by the radius.
InsideBy(pos, radius) ==
    /\ radius <= pos[1] /\ pos[1] <= WORLD_SIZE - radius
    /\ radius <= pos[2] /\ pos[2] <= WORLD_SIZE - radius

\* C28 as stated: every frame whose update() runs ends with the predicted
\* position, which is the position it pushes, inside the world shrunk by the
\* local radius the frame ends with.
C28_PositionWithinShrunkWorld ==
    [][ \A delta \in LongDeltas, ptr \in Points :
          (scene.up /\ UpdateRuns(delta) /\ Frame(delta, ptr))
          => InsideBy(ScenePos(scene'), scene'.localRadius)
      ]_vars

\* The part of C28 that holds: a frame that moves the player leaves it inside
\* the world shrunk by the radius the frame began with.
C28_ClampedByOldRadius ==
    [][ \A delta \in LongDeltas, ptr \in Points :
          (/\ scene.up /\ scene.serverPositionInitialized /\ UpdateRuns(delta)
           /\ Frame(delta, ptr) /\ ScenePos(scene') # ScenePos(scene))
          => InsideBy(ScenePos(scene'), scene.localRadius)
      ]_vars

\* A frame has just pushed a position that is closer to the wall than the
\* local radius.
C28_PushedFromInsideTheWall ==
    /\ scene.up /\ ~scene.isEaten /\ scene.serverPositionInitialized
    /\ conn # NULL_CONN /\ scene.sincePos = 0
    /\ scene.localX < scene.localRadius

\* C29: pendingFoodEats and pendingEjectedMassEats never hold an id that is
\* absent from foodMap and ejectedMassMap, and every frame ends with no id in
\* pendingPlayerEats whose row is absent from playerMap.
C29_NoPendingWithoutRow ==
    /\ pendingFoodEats \subseteq DOMAIN foodMap
    /\ pendingEjectedMassEats \subseteq DOMAIN ejectedMassMap
    /\ scene.up =>
          \A delta \in KeyDeltas, ptr \in {NearPoint} :
              FrameResult(delta, ptr).scene.pendingPlayerEats \subseteq DOMAIN playerMap

\* A remote player's row has vanished while the eat call for it is pending,
\* and a pellet has been deleted while the eat call for it was unsettled.
C29_RowGoneWhilePending ==
    /\ scene.up /\ ~scene.isEaten
    /\ \E id \in RemoteIds :
          id \in scene.pendingPlayerEats /\ id \notin DOMAIN playerMap
    /\ \E id \in FoodIds :
          id \in retired.food /\ inflight.eatFood[<<id, generation>>] > 0

\* The step removes the local player's row from the cache of a scene that
\* stays up.
LocalRowDeletedNow ==
    /\ LOCAL_ID \in DOMAIN playerMap /\ LOCAL_ID \notin DOMAIN playerMap'
    /\ scene.up /\ scene'.up

\* C30: a scene is consumed exactly while its respawn timer is pending; the
\* step that makes it consumed starts the timer at the fixed delay; a delete
\* notification that arrives while it is consumed changes nothing in the
\* scene and dispatches nothing; a frame in which the timer has not run out
\* leaves the scene consumed and dispatches nothing; the frame in which it
\* runs out clears the consumed flag and the timer and dispatches one
\* spawnPlayer call on the connection if there is one, and none otherwise.
C30_OneRespawnPerConsumption ==
    /\ [](scene.up => (scene.isEaten <=> scene.respawnIn # NO_TIMER))
    /\ [][ BecomesConsumed => scene'.respawnIn = RESPAWN_DELAY_MS ]_vars
    /\ [][ (scene.isEaten /\ LocalRowDeletedNow)
            => scene' = scene /\ inflight' = inflight ]_vars
    /\ [](  (scene.up /\ scene.isEaten) =>
             \A delta \in LongDeltas, ptr \in Points :
                 \A r \in {FrameResult(delta, ptr)} :
                     IF AdvanceClocks(scene, delta).respawnIn = 0
                     THEN /\ ~r.scene.isEaten
                          /\ r.scene.respawnIn = NO_TIMER
                          /\ r.inflight.spawnPlayer =
                                 [g \in Gens |->
                                     inflight.spawnPlayer[g]
                                     + (IF g = conn THEN 1 ELSE 0)]
                     ELSE /\ r.scene.isEaten
                          /\ r.scene.respawnIn # NO_TIMER
                          /\ r.inflight = inflight )

\* The timer of a consumed scene has fired: the scene is no longer consumed,
\* still holds the position it was consumed at and waits for the row of the
\* spawnPlayer call the frame dispatched.
C30_RespawnDispatched ==
    /\ scene.up /\ ~scene.isEaten /\ scene.respawnIn = NO_TIMER
    /\ ~scene.serverPositionInitialized
    /\ ScenePos(scene) # DefaultPos
    /\ LOCAL_ID \notin DOMAIN playerMap
    /\ conn # NULL_CONN /\ inflight.spawnPlayer[conn] = 1

\* C31 as stated: a frame that ends with the hard snap not yet taken
\* (serverPositionInitialized clear) sends no position and dispatches no eat
\* call.
C31_NothingSentBeforeSnap ==
    scene.up =>
        \A delta \in LongDeltas, ptr \in Points :
            \A r \in {FrameResult(delta, ptr)} :
                ~r.scene.serverPositionInitialized
                => /\ r.pushes = {}
                   /\ r.inflight.eatFood = inflight.eatFood
                   /\ r.inflight.eatEjectedMass = inflight.eatEjectedMass
                   /\ r.inflight.eatPlayer = inflight.eatPlayer

\* A respawned scene that has not snapped yet has just sent the position it
\* was consumed at, and an eat call for a pellet lying there is unsettled.
C31_SentFromStalePosition ==
    /\ scene.up /\ ~scene.isEaten /\ ~scene.serverPositionInitialized
    /\ ScenePos(scene) # DefaultPos
    /\ LOCAL_ID \notin DOMAIN playerMap
    /\ conn # NULL_CONN /\ scene.sincePos = 0
    /\ \E id \in pendingFoodEats :
          OverlapsFood(scene, id) /\ inflight.eatFood[<<id, conn>>] > 0

\* The step is a connection callback or a row handler of a connection whose
\* captured generation is not the current one.
StaleHandlerRuns ==
    \E g \in Gens :
        /\ Stale(g)
        /\ \/ OnConnect(g) \/ OnApplied(g) \/ OnDisconnect(g) \/ OnConnectError(g)
           \/ \E id \in Idents, row \in PlayerRows :
                 PlayerOnInsert(g, id, row) \/ PlayerOnUpdate(g, id, row)
           \/ \E id \in Idents : PlayerOnDelete(g, id)
           \/ \E id \in FoodIds, row \in FoodRows : FoodOnInsert(g, id, row)
           \/ \E id \in FoodIds : FoodOnDelete(g, id)
           \/ \E id \in EjectIds, row \in EjectedRows : EjectedOnInsert(g, id, row)
           \/ \E id \in EjectIds : EjectedOnDelete(g, id)
           \/ \E id \in CellIds, row \in CellRows(LOCAL_ID) :
                 CellOnInsert(g, id, row) \/ CellOnUpdate(g, id, row)
           \/ \E id \in CellIds : CellOnDelete(g, id)

\* C32: the generation never decreases; every step that assigns the
\* connection (connectToSpacetimeDB and cleanupSpacetimeDB) raises it by one,
\* so no two connections captured the same generation; and a connection
\* callback or row handler of a connection whose generation is not the
\* current one changes no replica cache, no pending set, not the local
\* identity, not the scene, and dispatches nothing.
C32_OnlyCurrentGenerationActs ==
    [][ /\ generation' >= generation
        /\ (conn' # conn \/ mounted' # mounted) => generation' = generation + 1
        /\ (conn' \notin {conn, NULL_CONN}) => conn' = generation'
        /\ StaleHandlerRuns
              => UNCHANGED <<cacheVars, pendingFoodEats, pendingEjectedMassEats,
                             localIdentityHex, scene, inflight>>
      ]_vars

\* A replaced connection was subscribed after its replacement (it dispatched
\* no spawnPlayer call), while the current connection has its identity and
\* rows in the caches.
C32_StaleConnectionSubscribed ==
    /\ Cur /\ localIdentityHex = LOCAL_ID
    /\ foodMap # EmptyMap /\ playerMap # EmptyMap
    /\ \E g \in Gens :
          Stale(g) /\ connPhase[g] = "subscribed" /\ inflight.spawnPlayer[g] = 0

\* C33: from the cleanup to the next connectToSpacetimeDB (no component is
\* mounted) the connection and the local identity are null, neither callback
\* is registered, and the four replica caches and the two shared pending sets
\* are empty, whatever the closed connections still deliver.
C33_EmptyUntilNextConnect ==
    ~mounted =>
        /\ conn = NULL_CONN /\ localIdentityHex = NULL_ID
        /\ onEatenCallback = 0 /\ onCellDeletedCallback = 0
        /\ playerMap = EmptyMap /\ foodMap = EmptyMap
        /\ ejectedMassMap = EmptyMap /\ playerCellMap = EmptyMap
        /\ pendingFoodEats = {} /\ pendingEjectedMassEats = {}
        /\ ~scene.up

\* The cleanup has run while an eat call was unsettled, and the connection it
\* closed has not reported its disconnect yet.
C33_CleanedUpWithCallsOpen ==
    /\ ~mounted /\ generation > 0
    /\ \E g \in Gens :
          /\ CanDeliver(g)
          /\ \E id \in FoodIds : inflight.eatFood[<<id, g>>] > 0

\* C34: in a scene, the launch phase and the merge animation are never both
\* active, a merge animation is active only while no split cell id is
\* tracked, and a launch phase only while one is tracked.
C34_SplitStateConsistent ==
    scene.up =>
        /\ ~(scene.splitLaunching /\ scene.splitMerging)
        /\ scene.splitMerging => scene.splitCellId = NO_CELL
        /\ scene.splitLaunching => scene.splitCellId # NO_CELL

\* A merge animation is running while the row of a new split cell is already
\* in the cache and the direction of its launch is pending: the next frame
\* cancels the merge and launches.
C34_NewCellDuringMerge ==
    /\ scene.up /\ ~scene.isEaten /\ scene.splitMerging
    /\ scene.splitCellId = NO_CELL
    /\ LocalCellId # NO_CELL
    /\ scene.pendingSplitDir # NoDir
    /\ HasLocalRow

\* C35: a frame sends updateCellPosition only with the id of the split cell
\* the scene tracks at the end of the frame, and only when the frame ends
\* with that cell not in its launch phase and no merge animation running; a
\* frame that tracks no cell sends none.
C35_CellPositionOnlyForTrackedCell ==
    scene.up =>
        \A delta \in SplitDeltas, ptr \in {FarPoint} :
            \A r \in {FrameResult(delta, ptr)} :
                /\ (\E p \in r.pushes : p[1] = "updateCellPosition")
                      <=> r.cellTargets # {}
                /\ r.cellTargets # {}
                      => /\ r.cellTargets = {r.scene.splitCellId}
                         /\ r.scene.splitCellId # NO_CELL
                         /\ ~r.scene.splitLaunching
                         /\ ~r.scene.splitMerging

\* A frame has just sent the position of a tracked split cell that is not in
\* its launch phase and is away from the main cell.
C35_CellPositionSent ==
    /\ scene.up /\ ~scene.isEaten /\ conn # NULL_CONN
    /\ scene.sincePos = 0
    /\ scene.splitCellId # NO_CELL /\ ~scene.splitLaunching
    /\ ScenePos(scene) # <<scene.splitClientX, scene.splitClientY>>

\* C36 as stated: the spawnPlayer call of a frame in which the respawn timer
\* runs out carries the name and the color of the call sent when the
\* subscription was applied.
C36_RespawnCarriesNameAndColor ==
    (scene.up /\ scene.isEaten /\ conn # NULL_CONN)
    => \A delta \in LongDeltas, ptr \in Points :
          FrameResult(delta, ptr).inflight.spawnPlayer[conn] > inflight.spawnPlayer[conn]
          => doRespawnSpawnArgs = OnAppliedSpawnArgs

\* The part of C36 that holds: the respawn call carries the same name.
C36_RespawnCarriesName ==
    (scene.up /\ scene.isEaten /\ conn # NULL_CONN)
    => \A delta \in LongDeltas, ptr \in Points :
          FrameResult(delta, ptr).inflight.spawnPlayer[conn] > inflight.spawnPlayer[conn]
          => doRespawnSpawnArgs.name = OnAppliedSpawnArgs.name

\* The respawn call of a player that was shown in the color of its first
\* spawn is unsettled, and it carries no color.
C36_RespawnSentWithoutColor ==
    /\ scene.up /\ ~scene.isEaten /\ scene.respawnIn = NO_TIMER
    /\ ~scene.serverPositionInitialized
    /\ scene.fillColor = OnAppliedSpawnArgs.color
    /\ conn # NULL_CONN /\ inflight.spawnPlayer[conn] > 0
    /\ LOCAL_ID \notin DOMAIN playerMap
    /\ doRespawnSpawnArgs.color = NO_COLOR

\* The ejected-mass rows in the cache whose owner is not the local player.
ForeignEjected == {id \in DOMAIN ejectedMassMap : ejectedMassMap[id].owner # LOCAL_ID}

\* C37 as stated: no frame places an ejected-mass row of another player in
\* the animating set, and a frame in which the only new rows are rows of
\* other players leaves a pending eject direction pending.
C37_ForeignRowsNeverAnimated ==
    scene.up =>
        \A delta \in KeyDeltas, ptr \in Points :
            \A r \in {FrameResult(delta, ptr)} :
                /\ ForeignEjected \cap DOMAIN r.scene.ejectedAnimating = {}
                /\ (/\ scene.pendingEjectDir # NoDir
                    /\ DOMAIN ejectedMassMap \ scene.ejectedGfx \subseteq ForeignEjected)
                   => r.scene.pendingEjectDir # NoDir

\* The row of another player's ejected mass is in the animating set and has
\* used up the pending direction, while the local player's own ejectMass call
\* is still unsettled.
C37_ForeignRowInTransit ==
    /\ scene.up /\ ~scene.isEaten
    /\ \E id \in ForeignEjected : id \in DOMAIN scene.ejectedAnimating
    /\ scene.pendingEjectDir = NoDir
    /\ conn # NULL_CONN /\ inflight.ejectMass[conn] > 0

====
